---- MODULE Spec2Model ----
(***************************************************************************)
(* Model of the in-browser RAG runtime of ragchat: VectorStore,            *)
(* DocumentManager, QueryRouter, PromptBuilder and RAGPipeline.            *)
(*                                                                         *)
(* Numbers.  Vector components are fixed-point with unit 1/10 and scores   *)
(* and confidences (products of two components) have unit 1/100, so that   *)
(* the arithmetic of dotProduct / cosineSimilarity and the comparisons     *)
(* against the router thresholds are exact integer arithmetic.  Float32    *)
(* rounding is not modelled: the vectors used have whole norms.            *)
(*                                                                         *)
(* Texts that the prompt builder cuts are sequences of tokens: a word, a   *)
(* blank, a newline, or one of the role labels ("User:", "Assistant:", ...)*)
(*                                                                         *)
(* Strings.  The empty string "" stands for every falsy string-valued JS   *)
(* value (undefined, null, ""): the code only tests such values with       *)
(* truthiness checks.  A missing embedding_dim is 0 for the same reason.   *)
(***************************************************************************)
EXTENDS Integers, Sequences, FiniteSets, TLC

VARIABLES
    \* VectorStore
    chunks, embeddings, isLoaded, embeddingDim,
    \* DocumentManager
    documents, categories, documentsById, documentsByCategory, dmIsLoaded,
    \* EmbeddingManager.isLoaded
    emIsLoaded,
    \* QueryRouter
    thresholdSimilarity, minimumConfidence,
    \* the promptBuilder a RAGPipeline was constructed with
    promptBuilder,
    \* the RAGPipeline.query call and the QueryRouter.routeQuery call in flight
    query, route,
    \* the offline pipeline: the files on disk and the step PipelineRunner.run is at
    files, runner,
    \* the locals of the query calls in flight at the same time, by call
    calls,
    \* ConversationManager: the conversations in localStorage, the UUIDs generated
    conversations, uuids,
    \* GPT2ChatApp
    currentConversation, currentConversationId, isGenerating, inputDisabled,
    settingsDisabled, sends, now,
    \* ModelManager
    pipeline, currentModel, mmIsLoaded, loads,
    \* the last call made or completed: its operation, arguments and outcome
    ret

storeVars == <<chunks, embeddings, isLoaded, embeddingDim>>

dmVars == <<documents, categories, documentsById, documentsByCategory, dmIsLoaded>>

emVars == <<emIsLoaded>>

routerVars == <<thresholdSimilarity, minimumConfidence, route>>

pipeVars == <<promptBuilder, query>>

offlineVars == <<files, runner>>

appVars == <<conversations, uuids, currentConversation, currentConversationId, isGenerating,
             inputDisabled, settingsDisabled, sends, now>>

mmVars == <<pipeline, currentModel, mmIsLoaded, loads>>

vars == <<storeVars, dmVars, emVars, routerVars, pipeVars, offlineVars, appVars, mmVars,
          calls, ret>>

\* ---------------------------------------------------------------- bounds
\* longest embeddings file
MaxChunks == 3
\* largest topK passed to search
MaxTopK == 3
\* dimension of the vectors of a well-formed embeddings file
Dim == 2
\* longest list of retrieved chunks given to extractSources
MaxRetrieved == 3
\* longest embeddings file loaded while queries run, and largest topK of a query
MaxQueryChunks == 2
MaxQueryTopK == 2
\* longest message list given to formatConversationHistory, largest token budget
MaxMessages == 3
MaxBudget == 6
\* longest generated text given to extractResponse, in tokens
MaxTextLen == 4
\* longest list of sentences given to createChunks
MaxSentences == 4
\* longest list of links the downloader finds on the page
MaxLinks == 3
\* longest extracted text handed to cleanText, in characters
MaxCleanLen == 8
\* longest list of links on the page of a pipeline run
MaxRunLinks == 2
\* the number of pipeline runs over one disk
MaxRuns == 2
\* the number of query calls in flight at the same time
MaxCalls == 2

\* most readings of the clock by the user's actions
MaxNow == 4

\* most loadModel calls, the one of init() included
MaxLoads == 2

\* the user picks among so many of the most recent conversations of the sidebar
MaxPick == 2

\* ------------------------------------------------------------- constants
\* the score 1.0: vector components have unit 1/10, scores unit 1/100
One == 10 * 10
DefaultDim == 768
\* the router's thresholds 0.6 and 0.4, in hundredths
DefaultThresholdSimilarity == 60
DefaultMinimumConfidence == 40
\* the chunker's parameters
TARGET_TOKENS == 250
OVERLAP_TOKENS == 50
MIN_CHUNK_TOKENS == 100

\* ------------------------------------------------------ generic helpers
Truthy(s) == s # ""

Min(a, b) == IF a < b THEN a ELSE b

Max(a, b) == IF a > b THEN a ELSE b

SeqsUpTo(U, n) == UNION {[1..k -> U] : k \in 0..n}

\* Array.prototype.slice(0, end)
SliceTo(s, end) ==
    LET e == IF end < 0 THEN Max(Len(s) + end, 0) ELSE Min(end, Len(s))
    IN  SubSeq(s, 1, e)

\* ------------------------------------------------------- input universes
CID == <<"k1", "k2", "k3", "k4", "k5">>

\* a two-component vector padded with zeros to the dimension of the index
Pad(v) == [i \in 1..Dim |-> IF i <= Len(v) THEN v[i] ELSE 0]

Metas == {[document_id |-> "A", category |-> "c1", language |-> "uk"],
          [document_id |-> "B", category |-> "c1", language |-> "en"],
          [document_id |-> "B", category |-> "c2", language |-> "uk"],
          [document_id |-> "B", category |-> "c1", language |-> "uk"]}

StoredVecs == {Pad(<<10, 0>>), Pad(<<6, 8>>)}

QueryVecs == {Pad(<<10, 0>>), Pad(<<0, 10>>), Pad(<<5, 0>>)}

MkChunk(i, m, v) ==
    [chunk_id |-> CID[i], document_id |-> m.document_id, text |-> "t",
     category |-> m.category, language |-> m.language,
     embedding |-> [kind |-> "array", data |-> v]]

\* well-formed embeddings files: embedding_dim present, every vector of that
\* length, every chunk with its ids and text
IndexFilesOver(U, n) ==
    {[has_chunks |-> TRUE, embedding_dim |-> Dim,
      chunks |-> [i \in DOMAIN s |-> MkChunk(i, s[i][1], s[i][2])]] :
        s \in SeqsUpTo(U, n)}

IndexFiles(n) == IndexFilesOver(Metas \X StoredVecs, n)

\* one defect put into a well-formed file d, at chunk i where it is per chunk
Corrupt(d, i, defect) ==
    CASE defect = "no_chunks" -> [d EXCEPT !.has_chunks = FALSE]
      [] defect = "no_dim" -> [d EXCEPT !.embedding_dim = 0]
      [] defect = "other_dim" -> [d EXCEPT !.embedding_dim = Dim + 1]
      [] defect = "short_vector" ->
            [d EXCEPT !.chunks[i].embedding.data = SubSeq(@, 1, Dim - 1)]
      [] defect = "bad_format" ->
            [d EXCEPT !.chunks[i].embedding = [kind |-> "other", data |-> <<>>]]
      [] defect = "no_chunk_id" -> [d EXCEPT !.chunks[i].chunk_id = ""]
      [] defect = "no_document_id" -> [d EXCEPT !.chunks[i].document_id = ""]
      [] defect = "no_text" -> [d EXCEPT !.chunks[i].text = ""]

FileDefects == {"no_chunks", "no_dim", "other_dim"}

ChunkDefects == {"short_vector", "bad_format", "no_chunk_id", "no_document_id", "no_text"}

CorruptFiles(n) ==
    {Corrupt(d, 1, x) : d \in IndexFiles(n), x \in FileDefects}
    \cup UNION {{Corrupt(d, i, x) : i \in DOMAIN d.chunks, x \in ChunkDefects} :
                    d \in IndexFiles(n)}

FilterSets ==
    [category : {"", "c1"}, language : {"", "uk"}, document_id : {"", "B"}]

NoFilters == [category |-> "", language |-> "", document_id |-> ""]

\* ------------------------------------------------------------ VectorStore
\* what this.chunks[i] evaluates to beyond the end of the array, spread into a result
NoChunk ==
    [chunk_id |-> "", document_id |-> "", text |-> "", category |-> "",
     language |-> "", embedding |-> [kind |-> "other", data |-> <<>>]]

Thrown(op, msg) == [op |-> op, threw |-> TRUE, error |-> msg]

RECURSIVE SumProd(_, _, _)
SumProd(v1, v2, i) ==
    IF i > Len(v1) THEN 0 ELSE v1[i] * v2[i] + SumProd(v1, v2, i + 1)

dotProduct(vec1, vec2) == SumProd(vec1, vec2, 1)

ISqrt(n) == CHOOSE r \in 0..n : r * r <= n /\ (r + 1) * (r + 1) > n

cosineSimilarity(vec1, vec2) ==
    LET magnitude == ISqrt(SumProd(vec1, vec1, 1)) * ISqrt(SumProd(vec2, vec2, 1))
    IN  IF magnitude = 0 THEN 0
        ELSE (One * SumProd(vec1, vec2, 1)) \div magnitude

Score(q, v, useCosineSim) ==
    IF useCosineSim THEN cosineSimilarity(q, v) ELSE dotProduct(q, v)

\* mutant of PassesFilters: the language filter is not applied
PassesFiltersNoLanguage(chunk, filters) ==
    /\ ~(Truthy(filters.category) /\ chunk.category # filters.category)
    /\ ~(Truthy(filters.document_id) /\ chunk.document_id # filters.document_id)

PassesFilters(chunk, filters) ==
    /\ ~(Truthy(filters.category) /\ chunk.category # filters.category)
    /\ ~(Truthy(filters.language) /\ chunk.language # filters.language)
    /\ ~(Truthy(filters.document_id) /\ chunk.document_id # filters.document_id)

AnyFilter(filters) ==
    Truthy(filters.category) \/ Truthy(filters.language) \/ Truthy(filters.document_id)

\* this.chunks[i]; beyond the end of the array it is undefined
ChunkAt(cs, i) == IF i \in DOMAIN cs THEN cs[i] ELSE NoChunk

\* what iteration i of the scan loop throws, "" when it throws nothing: reading a
\* field of an undefined chunk (only a supplied filter reads one), or a vector of
\* another length than the query
LoopError(cs, es, q, filters, i) ==
    IF i \notin DOMAIN cs
    THEN IF AnyFilter(filters) THEN "Cannot read properties of undefined"
         ELSE IF Len(es[i]) # Len(q) THEN "Vectors must have same length" ELSE ""
    ELSE IF PassesFilters(cs[i], filters) /\ Len(es[i]) # Len(q)
         THEN "Vectors must have same length" ELSE ""

\* the scan loop of search: indices that pass the filters, in storage order
RECURSIVE Scan(_, _, _, _)
Scan(cs, es, filters, i) ==
    IF i > Len(es) THEN <<>>
    ELSE IF PassesFilters(ChunkAt(cs, i), filters)
         THEN <<i>> \o Scan(cs, es, filters, i + 1)
         ELSE Scan(cs, es, filters, i + 1)

\* mutant of Compare: the sort ascending
CompareAscending(a, b) == a.score - b.score

\* comparator of the sort: (a, b) => b.score - a.score
Compare(a, b) == b.score - a.score

\* Array.prototype.sort is stable: x goes after every element not ordered after it
RECURSIVE InsertSorted(_, _)
InsertSorted(x, s) ==
    IF s = <<>> THEN <<x>>
    ELSE IF Compare(Head(s), x) <= 0
         THEN <<Head(s)>> \o InsertSorted(x, Tail(s))
         ELSE <<x>> \o s

RECURSIVE SortByScore(_)
SortByScore(s) ==
    IF s = <<>> THEN s
    ELSE InsertSorted(s[Len(s)], SortByScore(SubSeq(s, 1, Len(s) - 1)))

\* VectorStore.search as a function of the store and its arguments: a thrown
\* error, or the top results (index, score) and the chunk records mapped from them
search(cs, es, loaded, dim, queryEmbedding, topK, filters, useCosineSim) ==
    IF ~loaded
    THEN [threw |-> TRUE, error |-> "Vector store not loaded. Call loadEmbeddings() first."]
    ELSE IF Len(queryEmbedding) # dim
    THEN [threw |-> TRUE, error |-> "Query embedding dimension mismatch"]
    ELSE LET bad == {i \in 1..Len(es) : LoopError(cs, es, queryEmbedding, filters, i) # ""}
         IN  IF bad # {}
             THEN [threw |-> TRUE,
                   error |-> LoopError(cs, es, queryEmbedding, filters,
                                       CHOOSE i \in bad : \A j \in bad : i <= j)]
             ELSE LET cand == Scan(cs, es, filters, 1)
                      similarities ==
                          [k \in 1..Len(cand) |->
                              [index |-> cand[k],
                               score |-> Score(queryEmbedding, es[cand[k]], useCosineSim)]]
                      topResults == SliceTo(SortByScore(similarities), topK)
                  IN  [threw |-> FALSE,
                       top |-> topResults,
                       results |-> [k \in 1..Len(topResults) |->
                                      [similarity_score |-> topResults[k].score]
                                      @@ ChunkAt(cs, topResults[k].index)]]

\* new Float32Array(array): the fixed-point components are kept as they are
Float32Array(data) == data

ValidEmbedding(chunk) == chunk.embedding.kind \in {"array", "f32"}

\* VectorStore.loadEmbeddings(embeddingsData)
loadEmbeddings(embeddingsData) ==
    IF ~embeddingsData.has_chunks
    THEN /\ ret' = Thrown("loadEmbeddings", "Invalid embeddings data format")
         /\ UNCHANGED storeVars
    ELSE /\ chunks' = embeddingsData.chunks
         /\ embeddingDim' = IF embeddingsData.embedding_dim # 0
                            THEN embeddingsData.embedding_dim ELSE DefaultDim
         /\ IF \A i \in DOMAIN embeddingsData.chunks : ValidEmbedding(embeddingsData.chunks[i])
            THEN /\ embeddings' = [i \in DOMAIN embeddingsData.chunks |->
                                      Float32Array(embeddingsData.chunks[i].embedding.data)]
                 /\ isLoaded' = TRUE
                 /\ ret' = [op |-> "loadEmbeddings", threw |-> FALSE, data |-> embeddingsData]
            ELSE /\ UNCHANGED <<embeddings, isLoaded>>
                 /\ ret' = [op |-> "loadEmbeddings", threw |-> TRUE,
                            error |-> "Invalid embedding format", data |-> embeddingsData]

\* VectorStore.clear()
clear ==
    /\ chunks' = <<>>
    /\ embeddings' = <<>>
    /\ isLoaded' = FALSE
    /\ UNCHANGED embeddingDim
    /\ ret' = [op |-> "clear", threw |-> FALSE]

\* VectorStore.search(queryEmbedding, topK, filters, useCosineSim) called directly
Search(queryEmbedding, topK, filters, useCosineSim) ==
    /\ ret' = [op |-> "search",
               args |-> [queryEmbedding |-> queryEmbedding, topK |-> topK,
                         filters |-> filters, useCosineSim |-> useCosineSim]]
              @@ search(chunks, embeddings, isLoaded, embeddingDim,
                        queryEmbedding, topK, filters, useCosineSim)
    /\ UNCHANGED storeVars

\* Array.prototype.filter: the elements at the positions idx that pass the test
FilterChunks(cs, idx) ==
    LET F[i \in 0..Len(cs)] ==
            IF i = 0 THEN <<>>
            ELSE IF i \in idx THEN Append(F[i - 1], cs[i]) ELSE F[i - 1]
    IN  F[Len(cs)]

\* getChunkById: the first chunk with that id, or null (an empty list here)
getChunkById(chunkId) ==
    LET found == FilterChunks(chunks, {i \in DOMAIN chunks : chunks[i].chunk_id = chunkId})
    IN  /\ ret' = [op |-> "getChunkById", threw |-> FALSE, arg |-> chunkId,
                   value |-> SubSeq(found, 1, Min(1, Len(found)))]
        /\ UNCHANGED storeVars

\* mutant of getChunksByDocument: the filter result is kept as this.chunks
getChunksByDocumentInPlace(documentId) ==
    LET IsIt == {i \in DOMAIN chunks : chunks[i].document_id = documentId}
    IN  /\ ret' = [op |-> "getChunksByDocument", threw |-> FALSE, arg |-> documentId,
                   value |-> FilterChunks(chunks, IsIt)]
        /\ chunks' = FilterChunks(chunks, IsIt)
        /\ UNCHANGED <<embeddings, isLoaded, embeddingDim>>

getChunksByDocument(documentId) ==
    LET IsIt == {i \in DOMAIN chunks : chunks[i].document_id = documentId}
    IN  /\ ret' = [op |-> "getChunksByDocument", threw |-> FALSE, arg |-> documentId,
                   value |-> FilterChunks(chunks, IsIt)]
        /\ UNCHANGED storeVars

\* getStats (with estimateMemorySize left out: it reads the same fields)
getStats ==
    /\ ret' = IF ~isLoaded
              THEN [op |-> "getStats", threw |-> FALSE, loaded |-> FALSE, totalChunks |-> 0]
              ELSE [op |-> "getStats", threw |-> FALSE, loaded |-> TRUE,
                    totalChunks |-> Len(chunks), embeddingDim |-> embeddingDim,
                    uniqueDocuments |->
                        Cardinality({chunks[i].document_id : i \in DOMAIN chunks})]
    /\ UNCHANGED storeVars

\* -------------------------------------------------------- DocumentManager
Doc(id, title, category, language) ==
    [id |-> id, title |-> title, filename |-> "f", source_url |-> "u",
     category |-> category, language |-> language]

DocA == Doc("A", "Title A", "c1", "uk")

DocA2 == Doc("A", "Title A, second entry", "c1", "uk")

DocB == Doc("B", "Title B", "c2", "en")

Category(id) == [id |-> id, name_uk |-> "uk name", name_en |-> "en name"]

\* documents.json with its documents array; has_documents is FALSE for a file without one
DocumentFiles ==
    {[has_documents |-> TRUE, documents |-> ds] :
        ds \in {<<DocA>>, <<DocB, DocA>>, <<DocA, DocA2>>, <<>>}}
    \cup {[has_documents |-> FALSE, documents |-> <<>>]}

CategoryFiles ==
    {[has_categories |-> TRUE, categories |-> <<Category("c1")>>],
     [has_categories |-> FALSE, categories |-> <<>>]}

\* the Map built by documents.forEach(doc => documentsById.set(doc.id, doc)):
\* the last document of an id is the one kept
ById(ds) ==
    [id \in {ds[i].id : i \in DOMAIN ds} |->
        ds[CHOOSE i \in DOMAIN ds : ds[i].id = id /\ \A j \in DOMAIN ds : ds[j].id = id => j <= i]]

\* the Map from a category to its documents, in the order of the file
ByCategory(ds) ==
    [c \in {ds[i].category : i \in DOMAIN ds} |->
        FilterChunks(ds, {i \in DOMAIN ds : ds[i].category = c})]

\* DocumentManager.loadMetadata(documentsData, categoriesData)
loadMetadata(documentsData, categoriesData) ==
    IF ~documentsData.has_documents
    THEN /\ ret' = Thrown("loadMetadata", "Invalid documents data format")
         /\ UNCHANGED dmVars
    ELSE IF ~categoriesData.has_categories
    THEN /\ ret' = Thrown("loadMetadata", "Invalid categories data format")
         /\ UNCHANGED dmVars
    ELSE /\ documents' = documentsData.documents
         /\ categories' = categoriesData.categories
         /\ documentsById' = ById(documentsData.documents)
         /\ documentsByCategory' = ByCategory(documentsData.documents)
         /\ dmIsLoaded' = TRUE
         /\ ret' = [op |-> "loadMetadata", threw |-> FALSE]

\* DocumentManager.getDocumentById(id): the document, or null (an empty list here)
getDocumentById(byId, id) == IF id \in DOMAIN byId THEN <<byId[id]>> ELSE <<>>

\* DocumentManager.getCategoryById(categoryId): the first category of that id, if any
getCategoryById(cats, categoryId) ==
    LET found == FilterChunks(cats, {i \in DOMAIN cats : cats[i].id = categoryId})
    IN  SubSeq(found, 1, Min(1, Len(found)))

\* DocumentManager.getCategoryName(categoryId, language)
getCategoryName(cats, categoryId, language) ==
    LET category == getCategoryById(cats, categoryId)
    IN  IF category = <<>> THEN categoryId
        ELSE IF language = "en" THEN category[1].name_en ELSE category[1].name_uk

\* a lookup call on the DocumentManager: getDocumentById
DocumentManager_getDocumentById(id) ==
    /\ ret' = [op |-> "getDocumentById", threw |-> FALSE, arg |-> id,
               value |-> getDocumentById(documentsById, id)]
    /\ UNCHANGED dmVars

\* DocumentManager.getDocumentsByCategory(categoryId)
DocumentManager_getDocumentsByCategory(categoryId) ==
    /\ ret' = [op |-> "getDocumentsByCategory", threw |-> FALSE, arg |-> categoryId,
               value |-> IF categoryId \in DOMAIN documentsByCategory
                         THEN documentsByCategory[categoryId] ELSE <<>>]
    /\ UNCHANGED dmVars

\* DocumentManager.getStats()
DocumentManager_getStats ==
    /\ ret' = IF ~dmIsLoaded
              THEN [op |-> "dm.getStats", threw |-> FALSE, loaded |-> FALSE,
                    totalDocuments |-> 0, totalCategories |-> 0]
              ELSE [op |-> "dm.getStats", threw |-> FALSE, loaded |-> TRUE,
                    totalDocuments |-> Len(documents), totalCategories |-> Len(categories)]
    /\ UNCHANGED dmVars

\* DocumentManager.clear()
DocumentManager_clear ==
    /\ documents' = <<>>
    /\ categories' = <<>>
    /\ documentsById' = <<>>
    /\ documentsByCategory' = <<>>
    /\ dmIsLoaded' = FALSE
    /\ ret' = [op |-> "dm.clear", threw |-> FALSE]

\* ---------------------------------------------------------- PromptBuilder
NL == "\n"

Whitespace == {" ", NL}

RECURSIVE TrimStart(_)
TrimStart(t) == IF t # <<>> /\ Head(t) \in Whitespace THEN TrimStart(Tail(t)) ELSE t

RECURSIVE TrimEnd(_)
TrimEnd(t) ==
    IF t # <<>> /\ t[Len(t)] \in Whitespace THEN TrimEnd(SubSeq(t, 1, Len(t) - 1)) ELSE t

\* String.prototype.trim
Trim(t) == TrimEnd(TrimStart(t))

\* the positions at which marker occurs in t
Occurrences(t, marker) ==
    {i \in 1..(Len(t) - Len(marker) + 1) : SubSeq(t, i, i + Len(marker) - 1) = marker}

\* String.prototype.includes
Includes(t, marker) == Occurrences(t, marker) # {}

\* t.split(marker)[0]: the text before the first occurrence of marker
SplitFirst(t, marker) ==
    IF Includes(t, marker)
    THEN SubSeq(t, 1, (CHOOSE i \in Occurrences(t, marker) :
                          \A j \in Occurrences(t, marker) : i <= j) - 1)
    ELSE t

UserMarker == <<NL, "User:">>

AssistantMarker == <<NL, "Assistant:">>

prefixes == <<"Assistant:", "Bot:", "AI:", "GPT:">>

\* the loop over the role prefixes, from prefix number k on
RECURSIVE StripPrefixes(_, _)
StripPrefixes(response, k) ==
    IF k > Len(prefixes) THEN response
    ELSE IF response # <<>> /\ Head(response) = prefixes[k]
         THEN StripPrefixes(Trim(Tail(response)), k + 1)
         ELSE StripPrefixes(response, k + 1)

\* PromptBuilder.extractResponse(generatedText)
extractResponse(generatedText) ==
    LET r0 == Trim(generatedText)
        r1 == IF Includes(r0, UserMarker) THEN Trim(SplitFirst(r0, UserMarker)) ELSE r0
        r2 == IF Includes(r1, AssistantMarker) THEN Trim(SplitFirst(r1, AssistantMarker)) ELSE r1
    IN  StripPrefixes(r2, 1)

\* text.length: the characters of a token text
RECURSIVE Length(_)
Length(t) ==
    IF t = <<>> THEN 0
    ELSE (IF Head(t) = NL THEN 1 ELSE Len(Head(t))) + Length(Tail(t))

\* ModelManager.countTokens(text): Math.ceil(text.length / 4)
countTokens(t) == (Length(t) + 3) \div 4

\* the token counters a caller supplies: countTokens, as app.js does, or a count
\* of the words (the tokens that are not white space)
TokenCounters == {"countTokens", "words"}

tokenCount(tokenCounter, t) ==
    IF tokenCounter = "countTokens" THEN countTokens(t)
    ELSE Cardinality({i \in DOMAIN t : t[i] \notin Whitespace})

\* the formatted line of one message: `${role}: ${msg.content}`
FormatMessage(msg) ==
    <<(IF msg.role = "user" THEN "User:" ELSE "Assistant:"), " ">> \o msg.content

\* formatted.join('\n')
RECURSIVE Join(_)
Join(formatted) ==
    IF formatted = <<>> THEN <<>>
    ELSE IF Len(formatted) = 1 THEN formatted[1]
    ELSE formatted[1] \o <<NL>> \o Join(Tail(formatted))

\* mutant of ShiftWhileOver: the loop drops the newest message (pop for shift)
RECURSIVE PopWhileOver(_, _, _)
PopWhileOver(formatted, maxTokens, tokenCounter) ==
    IF tokenCount(tokenCounter, Join(formatted)) > maxTokens /\ Len(formatted) > 1
    THEN PopWhileOver(SubSeq(formatted, 1, Len(formatted) - 1), maxTokens, tokenCounter)
    ELSE formatted

\* the truncation loop of formatConversationHistory: shift while over the budget
\* and more than one message is left
RECURSIVE ShiftWhileOver(_, _, _)
ShiftWhileOver(formatted, maxTokens, tokenCounter) ==
    IF tokenCount(tokenCounter, Join(formatted)) > maxTokens /\ Len(formatted) > 1
    THEN ShiftWhileOver(Tail(formatted), maxTokens, tokenCounter)
    ELSE formatted

\* PromptBuilder.formatConversationHistory(messages, maxTokens, tokenCounter)
formatConversationHistory(messages, maxTokens, tokenCounter) ==
    IF Len(messages) = 0 THEN <<>>
    ELSE Join(ShiftWhileOver([i \in DOMAIN messages |-> FormatMessage(messages[i])],
                             maxTokens, tokenCounter))

\* formatConversationHistory called on a message list
FormatConversationHistory(messages, maxTokens, tokenCounter) ==
    /\ ret' = [op |-> "formatConversationHistory", threw |-> FALSE,
               args |-> [messages |-> messages, maxTokens |-> maxTokens,
                         tokenCounter |-> tokenCounter],
               value |-> formatConversationHistory(messages, maxTokens, tokenCounter)]
    /\ UNCHANGED pipeVars

\* extractResponse called on a generated text
ExtractResponse(generatedText) ==
    /\ ret' = [op |-> "extractResponse", threw |-> FALSE, arg |-> generatedText,
               value |-> extractResponse(generatedText)]
    /\ UNCHANGED pipeVars

\* the methods the class PromptBuilder defines
PromptBuilderMethods ==
    {"formatConversationHistory", "createPrompt", "extractResponse", "buildPrompt",
     "validateMessage", "calculatePromptTokens"}

\* what a RAGPipeline can be constructed with as its promptBuilder: an instance of
\* the class PromptBuilder, or a builder that also has the grounded prompt
PromptBuilders == {"PromptBuilder", "GroundedPromptBuilder"}

MethodsOf(builder) ==
    IF builder = "PromptBuilder" THEN PromptBuilderMethods
    ELSE PromptBuilderMethods \cup {"buildRAGPrompt"}

\* the grounded prompt: header, the numbered source blocks, the question, the cue
buildRAGPrompt(userQuery, context) ==
    [header |-> "Answer using only the provided sources.", context |-> context,
     question |-> userQuery, cue |-> "Assistant:"]

\* ------------------------------------------------------------ RAGPipeline
\* RAGPipeline.buildContext(chunks): one numbered block per chunk
buildContext(retrieved) ==
    [k \in DOMAIN retrieved |-> [source |-> k, text |-> retrieved[k].text]]

\* the loop of extractSources from chunk number k on, uniqueDocs being the ids seen
RECURSIVE SourcesFrom(_, _, _, _, _)
SourcesFrom(retrieved, k, uniqueDocs, byId, cats) ==
    IF k > Len(retrieved) THEN <<>>
    ELSE LET chunk == retrieved[k]
             doc == getDocumentById(byId, chunk.document_id)
         IN  IF chunk.document_id \in uniqueDocs
             THEN SourcesFrom(retrieved, k + 1, uniqueDocs, byId, cats)
             ELSE (IF doc = <<>> THEN <<>>
                   ELSE <<[document_id |-> doc[1].id, title |-> doc[1].title,
                           category |-> doc[1].category,
                           categoryName |-> getCategoryName(cats, doc[1].category, chunk.language),
                           source_url |-> doc[1].source_url, language |-> doc[1].language,
                           filename |-> doc[1].filename]>>)
                  \o SourcesFrom(retrieved, k + 1, uniqueDocs \cup {chunk.document_id}, byId, cats)

\* mutant of extractSources: the ids seen are not remembered
RECURSIVE SourcesNoDedup(_, _, _, _)
SourcesNoDedup(retrieved, k, byId, cats) ==
    IF k > Len(retrieved) THEN <<>>
    ELSE SourcesFrom(<<retrieved[k]>>, 1, {}, byId, cats)
         \o SourcesNoDedup(retrieved, k + 1, byId, cats)

extractSourcesNoDedup(retrieved, byId, cats) == SourcesNoDedup(retrieved, 1, byId, cats)

\* RAGPipeline.extractSources(chunks)
extractSources(retrieved, byId, cats) == SourcesFrom(retrieved, 1, {}, byId, cats)

\* RAGPipeline.extractSources called on a list of retrieved chunks
ExtractSources(retrieved) ==
    /\ ret' = [op |-> "extractSources", threw |-> FALSE, arg |-> retrieved,
               value |-> extractSources(retrieved, documentsById, categories)]
    /\ UNCHANGED pipeVars

\* the answers of the two results that carry a fixed bilingual sentence
NoResultsAnswer == <<"Ne znaideno relevantnykh dokumentiv. / No relevant documents found.">>

FailureAnswer ==
    <<"Vynykla pomylka pry obrobtsi zapytu. / An error occurred while processing your request.">>

\* EmbeddingManager.embedText(text) up to its await: the error it rejects with
\* at once, or "" when the call goes on to the embedding model
embedText(loaded, text) ==
    IF ~loaded THEN "Embedding model not loaded. Call loadModel() first."
    ELSE IF text = "" THEN "Text must be a non-empty string"
    ELSE ""

\* what the awaited embedText settles with: ok and a vector, or an error
EmbedVecs == QueryVecs \cup {Pad(<<0 - 10, 0>>), <<10>>}

Resolved(v) == [ok |-> TRUE, value |-> v, error |-> ""]

Rejected(msg) == [ok |-> FALSE, value |-> <<>>, error |-> msg]

EmbedOutcomes(call) ==
    IF call.pc = "idle" THEN {}
    ELSE IF call.rejection # "" THEN {Rejected(call.rejection)}
    ELSE {Resolved(v) : v \in EmbedVecs} \cup {Rejected("embedding failed")}

\* ModelManager.generateResponse up to its await, the model being loaded or not
generateResponse(loaded) ==
    IF ~loaded THEN "Model not loaded. Call loadModel() first." ELSE ""

GenTexts ==
    {<<"w">>,
     <<"Assistant:", " ", "w", NL, "User:", " ", "w">>,
     <<" ", "w", NL, "Assistant:", "w", NL, "User:">>}

\* output[0].generated_text of an output that carries no text: the one value
\* here that is not a string
Undefined == <<"undefined">>

GenOutcomes(call) ==
    IF call.pc = "idle" THEN {}
    ELSE IF call.rejection # "" THEN {Rejected(call.rejection)}
    ELSE {Resolved(g) : g \in GenTexts \cup {Undefined}} \cup {Rejected("generation failed")}

\* the retrievedChunks of a response: the fields copied from each chunk
ResponseChunks(retrieved) ==
    [k \in DOMAIN retrieved |->
        [chunk_id |-> retrieved[k].chunk_id, text |-> retrieved[k].text,
         document_id |-> retrieved[k].document_id,
         similarity_score |-> retrieved[k].similarity_score,
         category |-> retrieved[k].category, language |-> retrieved[k].language]]

RECURSIVE SumScores(_, _)
SumScores(retrieved, k) ==
    IF k > Len(retrieved) THEN 0
    ELSE retrieved[k].similarity_score + SumScores(retrieved, k + 1)

\* RAGPipeline.calculateAvgSimilarity(chunks), in thousandths (toFixed(3))
calculateAvgSimilarity(retrieved) ==
    IF Len(retrieved) = 0 THEN 0
    ELSE (2 * 10 * SumScores(retrieved, 1) + Len(retrieved)) \div (2 * Len(retrieved))

\* mutant of Caught: the catch block rethrows
CaughtRethrown(msg) == [threw |-> TRUE, error |-> msg]

\* the catch block of query: the result returned for a caught error
Caught(msg) ==
    [threw |-> FALSE, raised |-> msg,
     value |-> [mode |-> "error", answer |-> FailureAnswer, error |-> msg,
                retrievedChunks |-> <<>>, sources |-> <<>>]]

Returned(response) == [threw |-> FALSE, raised |-> "", value |-> response]

\* mutant of NoResults: the early return is never taken
NoResultsNever(retrieved) == FALSE

\* the test of query for an empty retrieval
NoResults(retrieved) == Len(retrieved) = 0

\* what a query call has done, kept with its result
History(call) ==
    [userQuery |-> call.userQuery, options |-> call.options, builder |-> promptBuilder,
     embedded |-> call.embedded, searched |-> call.searched, retrieved |-> call.retrieved,
     generated |-> call.generated, embedderCalls |-> call.embedderCalls,
     generatorCalls |-> call.generatorCalls]

IdleCall == [pc |-> "idle"]

QueryOptions ==
    [topK : 0..MaxQueryTopK,
     filters : {NoFilters, [NoFilters EXCEPT !.category = "c1"]},
     includeMetadata : BOOLEAN]

\* the locals of a query call at its first await (embedText)
StartedCall(userQuery, options) ==
    [pc |-> "embedding", userQuery |-> userQuery, options |-> options,
     rejection |-> embedText(emIsLoaded, userQuery),
     embedded |-> Rejected(""), searched |-> FALSE, retrieved |-> <<>>,
     generated |-> Rejected(""), embedderCalls |-> 1, generatorCalls |-> 0]

\* mutant of Invoked: a generation that is started is started twice
InvokedTwice(n) == n + 2

\* one more invocation of the generator: the one await of generateResponse
Invoked(n) == n + 1

\* query from the settling of embedText to its return or to its second await
\* (generateResponse), for the call whose locals are frame: the locals after it
\* and what is returned or called; generatorLoaded is ModelManager.isLoaded
Embedded(frame, out, generatorLoaded) ==
    LET call == [frame EXCEPT !.embedded = out]
        found == search(chunks, embeddings, isLoaded, embeddingDim,
                        out.value, frame.options.topK, frame.options.filters, FALSE)
    IN  IF ~out.ok
        THEN [next |-> IdleCall,
              ret |-> [op |-> "query"] @@ Caught(out.error) @@ History(call)]
        ELSE IF found.threw
        THEN [next |-> IdleCall,
              ret |-> [op |-> "query"] @@ Caught(found.error) @@ History(call)]
        ELSE LET searched == [call EXCEPT !.searched = TRUE, !.retrieved = found.results]
             IN  IF NoResults(found.results)
                 THEN [next |-> IdleCall,
                       ret |-> [op |-> "query"]
                               @@ Returned([mode |-> "no_results", answer |-> NoResultsAnswer,
                                            retrievedChunks |-> <<>>, sources |-> <<>>,
                                            metadata |-> [retrievedCount |-> 0]])
                               @@ History(searched)]
                 ELSE IF "buildRAGPrompt" \notin MethodsOf(promptBuilder)
                 THEN [next |-> IdleCall,
                       ret |-> [op |-> "query"]
                               @@ Caught("this.promptBuilder.buildRAGPrompt is not a function")
                               @@ History(searched)]
                 ELSE [next |-> [searched EXCEPT
                                    !.pc = "generating",
                                    !.rejection = generateResponse(generatorLoaded),
                                    !.generatorCalls = Invoked(@)],
                       ret |-> [op |-> "generateResponse.call", threw |-> FALSE,
                                prompt |-> buildRAGPrompt(frame.userQuery,
                                                          buildContext(found.results))]]

\* query from the settling of generateResponse to its return, for the call
\* whose locals are frame
Generated(frame, out) ==
    LET call == [frame EXCEPT !.generated = out]
        sources == extractSources(frame.retrieved, documentsById, categories)
        response == [mode |-> "rag", answer |-> extractResponse(out.value),
                     retrievedChunks |-> ResponseChunks(frame.retrieved),
                     sources |-> sources]
        metadata == [retrievedCount |-> Len(frame.retrieved), sourceCount |-> Len(sources),
                     avgSimilarity |-> calculateAvgSimilarity(frame.retrieved)]
    IN  IF ~out.ok
        THEN [op |-> "query"] @@ Caught(out.error) @@ History(call)
        ELSE IF out.value = Undefined
        THEN [op |-> "query"]
             @@ Caught("Cannot read properties of undefined (reading 'trim')")
             @@ History(call)
        ELSE IF ~frame.options.includeMetadata
        THEN [op |-> "query"]
             @@ Caught("Cannot read properties of undefined (reading 'queryTime')")
             @@ History(call)
        ELSE [op |-> "query"]
             @@ Returned(response @@ [metadata |-> metadata])
             @@ History(call)

\* RAGPipeline.query(userQuery, options) up to its first await (embedText)
QueryCall(userQuery, options) ==
    /\ query.pc = "idle"
    /\ query' = StartedCall(userQuery, options)
    /\ ret' = [op |-> "query.call", threw |-> FALSE]
    /\ UNCHANGED promptBuilder

\* query from the settling of embedText to its return or to its second await
QueryEmbedded(out, generatorLoaded) ==
    /\ query.pc = "embedding"
    /\ UNCHANGED promptBuilder
    /\ query' = Embedded(query, out, generatorLoaded).next
    /\ ret' = Embedded(query, out, generatorLoaded).ret

\* query from the settling of generateResponse to its return
QueryGenerated(out) ==
    /\ query.pc = "generating"
    /\ UNCHANGED promptBuilder
    /\ query' = IdleCall
    /\ ret' = Generated(query, out)

\* no query call in flight
NoCalls == [id \in 1..MaxCalls |-> IdleCall]

\* mutant of OwnFrame: the locals are fields of the pipeline, those of the call
\* in flight that was numbered last
SharedFrame(inflight, id) ==
    inflight[CHOOSE j \in DOMAIN inflight :
                /\ inflight[j].pc # "idle"
                /\ \A k \in DOMAIN inflight : inflight[k].pc # "idle" => k <= j]

\* the locals a call of query resumes with: those of its own invocation
OwnFrame(inflight, id) == inflight[id]

\* a deterministic embedder: what embedText settles with is fixed by the text
EmbedderOf(text) ==
    IF text = "q1" THEN Resolved(Pad(<<10, 0>>))
    ELSE IF text = "q2" THEN Resolved(Pad(<<0, 10>>))
    ELSE Rejected("embedding failed")

\* a deterministic generator: what generateResponse settles with is fixed by the prompt
GeneratorOf(prompt) ==
    IF prompt.question = "q2" /\ Len(prompt.context) = 1
    THEN Rejected("generation failed")
    ELSE Resolved(<<" ", prompt.question>> \o [k \in DOMAIN prompt.context |-> "w"]
                  \o <<NL, "User:", "w">>)

\* what the promise a call awaits settles with
Settled(rejection, outcome) == IF rejection # "" THEN Rejected(rejection) ELSE outcome

\* call number id of RAGPipeline.query(userQuery, options), up to its first await
ConcurrentCall(id, userQuery, options) ==
    /\ calls[id].pc = "idle"
    /\ calls' = [calls EXCEPT ![id] = StartedCall(userQuery, options)]
    /\ ret' = [op |-> "query.call", threw |-> FALSE, id |-> id]

\* call number id resumed when its embedText settles
ConcurrentEmbedded(id) ==
    /\ calls[id].pc = "embedding"
    /\ LET out == Settled(calls[id].rejection, EmbedderOf(calls[id].userQuery))
           step == Embedded(OwnFrame(calls, id), out, TRUE)
       IN  /\ calls' = [calls EXCEPT ![id] =
                          IF step.next.pc = "generating"
                          THEN [prompt |-> step.ret.prompt] @@ step.next
                          ELSE step.next]
           /\ ret' = [id |-> id] @@ step.ret

\* call number id resumed when its generateResponse settles
ConcurrentGenerated(id) ==
    /\ calls[id].pc = "generating"
    /\ LET out == Settled(calls[id].rejection, GeneratorOf(calls[id].prompt))
       IN  ret' = [id |-> id] @@ Generated(OwnFrame(calls, id), out)
    /\ calls' = [calls EXCEPT ![id] = IdleCall]

\* ------------------------------------------------------ DocumentDownloader
\* A title is a sequence of characters, a url the triple of its host, the form
\* of its path and the name or id at its end, a path the tuple of its parts.

OUTPUT_DIR == "./raw_documents"

\* a file that was not written yet: who reads it finds no documents and no chunks
Absent == [absent |-> TRUE, documents |-> <<>>, chunks |-> <<>>]

\* the disk before anything was written
NoFiles ==
    [raw |-> {}, manifest |-> Absent, texts |-> <<>>, extracted |-> Absent, chunked |-> Absent,
     embedded |-> Absent, categories |-> <<>>,
     deployed |-> [embeddings |-> Absent, documents |-> Absent, categories |-> <<>>]]

\* the characters sanitizeFilename replaces one by one, and the white space
SpecialChars == {"<", ">", ":", "\"", "/", "\\", "|", "?", "*"}

\* name.replace(/\s+/g, '_'): every run of white space becomes one underscore
RECURSIVE ReplaceRuns(_, _, _)
ReplaceRuns(name, class, by) ==
    IF name = <<>> THEN <<>>
    ELSE IF Head(name) \in class
         THEN IF Len(name) > 1 /\ name[2] \in class
              THEN ReplaceRuns(Tail(name), class, by)
              ELSE <<by>> \o ReplaceRuns(Tail(name), class, by)
         ELSE <<Head(name)>> \o ReplaceRuns(Tail(name), class, by)

\* DocumentDownloader.sanitizeFilename(name)
sanitizeFilename(name) ==
    LET replaced == [i \in DOMAIN name |-> IF name[i] \in SpecialChars THEN "_" ELSE name[i]]
    IN  SubSeq(ReplaceRuns(replaced, Whitespace, "_"), 1,
               Min(200, Len(ReplaceRuns(replaced, Whitespace, "_"))))

\* DocumentDownloader.getExtension(type)
getExtension(type) == IF type \in {"doc", "docx"} THEN type ELSE "pdf"

\* DocumentDownloader.getGoogleDriveDirectLink(url): the direct link, or "" when
\* no file id is found in the url (an error is thrown)
getGoogleDriveDirectLink(url) ==
    IF url[2] \in {"/file/d/", "?id=", "/forms/d/"}
    THEN <<"drive.google.com", "/uc?export=download&id=", url[3]>>
    ELSE ""

\* the entry addToMetadata pushes, this.documents holding n entries
addToMetadata(docLink, filename, filepath, downloaded, error, n) ==
    [id |-> <<"doc_", n + 1>>, title |-> docLink.title, filename |-> filename,
     filepath |-> filepath, source_url |-> docLink.url, category |-> docLink.category,
     language |-> docLink.language, type |-> docLink.type, downloaded |-> downloaded,
     download_error |-> error]

\* DocumentDownloader.downloadDocument(docLink) on a disk holding the raw files
\* raw, this.documents holding n entries, answer being what the server and the
\* disk answer if the file is fetched
downloadDocument(docLink, answer, raw, n) ==
    LET filename == <<sanitizeFilename(docLink.title), ".", getExtension(docLink.type)>>
        filepath == <<OUTPUT_DIR, docLink.category, filename>>
        failed(msg, fetched) ==
            [threw |-> TRUE, error |-> msg, fetched |-> fetched, raw |-> raw,
             entry |-> addToMetadata(docLink, filename, filepath, FALSE, msg, n)]
    IN  IF filepath \in raw
        THEN [threw |-> FALSE, error |-> "", fetched |-> FALSE, raw |-> raw,
              entry |-> addToMetadata(docLink, filename, filepath, TRUE, "", n)]
        ELSE IF docLink.type = "google_drive" /\ getGoogleDriveDirectLink(docLink.url) = ""
        THEN failed("Could not extract file ID from URL", FALSE)
        ELSE IF answer # "ok"
        THEN failed(answer, TRUE)
        ELSE [threw |-> FALSE, error |-> "", fetched |-> TRUE, raw |-> raw \cup {filepath},
              entry |-> addToMetadata(docLink, filename, filepath, TRUE, "", n)]

\* mutant of DownloadLoop: the first failure ends the loop
RECURSIVE DownloadLoopAborting(_, _, _, _)
DownloadLoopAborting(documentLinks, answers, index, d) ==
    IF index > Len(documentLinks) THEN d
    ELSE LET one == downloadDocument(documentLinks[index], answers[index], d.raw,
                                     Len(d.documents))
         IN  IF one.threw
             THEN [d EXCEPT !.documents = Append(@, one.entry), !.failedCount = @ + 1,
                            !.fetched = Append(@, one.fetched),
                            !.threw = Append(@, TRUE)]
             ELSE DownloadLoopAborting(documentLinks, answers, index + 1,
                      [raw |-> one.raw, documents |-> Append(d.documents, one.entry),
                       downloadedCount |-> d.downloadedCount + 1,
                       failedCount |-> d.failedCount,
                       fetched |-> Append(d.fetched, one.fetched),
                       threw |-> Append(d.threw, FALSE)])

\* the loop of download over the links from number index on; d holds the raw
\* files, this.documents, the two counters and, per link, whether it was fetched
\* and whether downloadDocument threw
RECURSIVE DownloadLoop(_, _, _, _)
DownloadLoop(documentLinks, answers, index, d) ==
    IF index > Len(documentLinks) THEN d
    ELSE LET one == downloadDocument(documentLinks[index], answers[index], d.raw,
                                     Len(d.documents))
         IN  DownloadLoop(documentLinks, answers, index + 1,
                 [raw |-> one.raw, documents |-> Append(d.documents, one.entry),
                  downloadedCount |-> d.downloadedCount + (IF one.threw THEN 0 ELSE 1),
                  failedCount |-> d.failedCount + (IF one.threw THEN 1 ELSE 0),
                  fetched |-> Append(d.fetched, one.fetched),
                  threw |-> Append(d.threw, one.threw)])

\* new DocumentDownloader().download(): fetchPage tells whether the page is
\* fetched, page is the list of links parsed from it
download(fetchPage, page, answers) ==
    IF fetchPage # "ok"
    THEN /\ ret' = Thrown("download", "HTTP error! status: 503")
         /\ files' = files
    ELSE LET d == DownloadLoop(page, answers, 1,
                               [raw |-> files.raw, documents |-> <<>>, downloadedCount |-> 0,
                                failedCount |-> 0, fetched |-> <<>>, threw |-> <<>>])
         IN  /\ files' = [files EXCEPT
                            !.raw = d.raw,
                            !.manifest = [total_documents |-> Len(d.documents),
                                          downloaded |-> d.downloadedCount,
                                          failed |-> d.failedCount,
                                          documents |-> d.documents]]
             /\ ret' = [op |-> "download", threw |-> FALSE, links |-> page,
                        answers |-> answers, rawBefore |-> files.raw, fetched |-> d.fetched,
                        failed |-> d.threw,
                        downloadedCount |-> d.downloadedCount, failedCount |-> d.failedCount]

\* ----------------------------------------------------------- TextExtractor
\* An extracted text is a sequence of characters.

\* the number of characters c the text starts with
RECURSIVE LeadingRun(_, _)
LeadingRun(text, c) ==
    IF text # <<>> /\ Head(text) = c THEN 1 + LeadingRun(Tail(text), c) ELSE 0

\* text.replace(/\n{3,}/g, '\n\n'): every run of three or more newlines becomes two
RECURSIVE ReplaceNewlines(_)
ReplaceNewlines(text) ==
    IF text = <<>> THEN <<>>
    ELSE IF Head(text) = NL
         THEN LET k == LeadingRun(text, NL)
              IN  (IF k >= 3 THEN <<NL, NL>> ELSE SubSeq(text, 1, k))
                      \o ReplaceNewlines(SubSeq(text, k + 1, Len(text)))
         ELSE <<Head(text)>> \o ReplaceNewlines(Tail(text))

\* TextExtractor.cleanText(text)
cleanText(text) == Trim(ReplaceNewlines(ReplaceRuns(text, Whitespace, " ")))

CleanText(text) ==
    /\ ret' = [op |-> "cleanText", threw |-> FALSE, arg |-> text, value |-> cleanText(text)]
    /\ UNCHANGED offlineVars

\* ------------------------------------------------------------ TextChunker
\* A text of the chunker is the sequence of the lengths of its words, the words
\* being separated by single blanks.

\* the letters of the words number lo to hi
RECURSIVE Letters(_, _, _)
Letters(words, lo, hi) ==
    IF lo > hi THEN 0
    ELSE IF lo = hi THEN words[lo]
    ELSE Letters(words, lo, (lo + hi) \div 2) + Letters(words, (lo + hi) \div 2 + 1, hi)

\* text.length: the letters and the blanks between the words
Chars(words) ==
    IF words = <<>> THEN 0 ELSE Letters(words, 1, Len(words)) + Len(words) - 1

\* TextChunker.estimateTokens(text): Math.ceil(text.length / 3.5)
estimateTokens(words) == (2 * Chars(words) + 6) \div 7

\* mutant of getOverlapText: the first `tokens` words
getOverlapTextHead(words, tokens) == SubSeq(words, 1, Min(tokens, Len(words)))

\* TextChunker.getOverlapText(text, tokens): the last `tokens` words
getOverlapText(words, tokens) ==
    LET overlapWords == Min(tokens, Len(words))
    IN  IF overlapWords <= 0 THEN <<>>
        ELSE SubSeq(words, Len(words) - overlapWords + 1, Len(words))

\* TextChunker.createChunkObject(text, doc, chunkIndex, tokens)
createChunkObject(text, doc, chunkIndex, tokens) ==
    [chunk_id |-> <<doc.id, "_chunk_", chunkIndex>>, document_id |-> doc.id,
     text |-> text, tokens |-> tokens, chunk_index |-> chunkIndex,
     category |-> doc.category, language |-> doc.language,
     metadata |-> [document_title |-> doc.title, document_filename |-> doc.filename,
                   source_url |-> doc.source_url]]

\* mutant of NextIndex: the index is not advanced after a chunk is pushed
NextIndexSame(chunkIndex) == chunkIndex

\* chunkIndex++
NextIndex(chunkIndex) == chunkIndex + 1

\* mutant of TailKept: the trailing segment must exceed the minimum
TailKeptStrict(currentChunk, currentTokens) ==
    currentChunk # <<>> /\ currentTokens > MIN_CHUNK_TOKENS

\* the test for saving the last chunk
TailKept(currentChunk, currentTokens) ==
    currentChunk # <<>> /\ currentTokens >= MIN_CHUNK_TOKENS

\* the loop of createChunks from sentence number i on, and the saving of the
\* last chunk
RECURSIVE ChunkLoop(_, _, _, _, _, _, _)
ChunkLoop(sentences, doc, i, emitted, currentChunk, currentTokens, chunkIndex) ==
    IF i > Len(sentences)
    THEN [chunks |-> IF TailKept(currentChunk, currentTokens)
                     THEN Append(emitted, createChunkObject(currentChunk, doc, chunkIndex,
                                                            currentTokens))
                     ELSE emitted,
          currentChunk |-> currentChunk, currentTokens |-> currentTokens]
    ELSE LET sentence == sentences[i]
             sentenceTokens == estimateTokens(sentence)
         IN  IF currentTokens + sentenceTokens > TARGET_TOKENS /\ currentChunk # <<>>
             THEN LET overlapText == getOverlapText(currentChunk, OVERLAP_TOKENS)
                      started == overlapText \o sentence
                  IN  ChunkLoop(sentences, doc, i + 1,
                                Append(emitted, createChunkObject(currentChunk, doc, chunkIndex,
                                                                  currentTokens)),
                                started, estimateTokens(started), NextIndex(chunkIndex))
             ELSE ChunkLoop(sentences, doc, i + 1, emitted, currentChunk \o sentence,
                            currentTokens + sentenceTokens, chunkIndex)

\* TextChunker.createChunks(sentences, doc)
createChunks(sentences, doc) == ChunkLoop(sentences, doc, 1, <<>>, <<>>, 0, 0).chunks

\* createChunks called on the sentences of a document; last is the segment that
\* was current when the sentences ended
CreateChunks(sentences, doc) ==
    /\ ret' = [op |-> "createChunks", threw |-> FALSE,
               args |-> [sentences |-> sentences, doc |-> doc],
               value |-> createChunks(sentences, doc),
               last |-> ChunkLoop(sentences, doc, 1, <<>>, <<>>, 0, 0).currentTokens]
    /\ UNCHANGED offlineVars

\* ---------------------------------------------------------- PipelineRunner
\* The steps of PipelineRunner.run, each one a whole step of the pipeline over
\* the files on disk; runner.step is the step that comes next, "complete" after
\* printSummary and "failed" after process.exit(1), runner.run the number of
\* runs started. An extracted text is kept as
\* the list of its sentences.

EXTRACTED_DIR == "./extracted_texts"

\* TextExtractor.saveExtractedText(doc, text): the path written and the entry pushed
ExtractedPath(doc) == <<EXTRACTED_DIR, doc.category, <<doc.filename[1], ".", "txt">>>>

ExtractedDoc(doc) ==
    [extracted_text_path |-> ExtractedPath(doc), extracted |-> TRUE] @@ doc

\* the loop of extract over the downloaded documents from number index on:
\* outcomes[index] tells whether extractDocument throws and, if not, the text
RECURSIVE ExtractLoop(_, _, _, _)
ExtractLoop(downloadedDocs, outcomes, index, e) ==
    IF index > Len(downloadedDocs) THEN e
    ELSE LET doc == downloadedDocs[index]
         IN  ExtractLoop(downloadedDocs, outcomes, index + 1,
                 IF outcomes[index].failed \/ doc.filepath \notin e.raw
                 THEN [e EXCEPT !.failedCount = @ + 1]
                 ELSE [e EXCEPT !.extractedCount = @ + 1,
                                !.texts = (ExtractedPath(doc) :> outcomes[index].text) @@ @,
                                !.extractedDocs = Append(@, ExtractedDoc(doc))])

\* TextExtractor.extract()
extract(outcomes) ==
    LET docs == files.manifest.documents
        downloadedDocs == FilterChunks(docs, {i \in DOMAIN docs : docs[i].downloaded})
        e == ExtractLoop(downloadedDocs, outcomes, 1,
                         [raw |-> files.raw, texts |-> files.texts, extractedDocs |-> <<>>,
                          extractedCount |-> 0, failedCount |-> 0])
    IN  [files EXCEPT !.texts = e.texts,
                      !.extracted = [total_processed |-> e.extractedCount + e.failedCount,
                                     successfully_extracted |-> e.extractedCount,
                                     failed |-> e.failedCount,
                                     documents |-> e.extractedDocs]]

\* the chunks chunkDocument adds for a document whose extracted text is text
ChunkedDocument(doc, text) == IF text = <<>> THEN <<>> ELSE createChunks(text, doc)

\* the loop of TextChunker.chunk over the extracted documents: readable[index] is
\* FALSE when the text of the document cannot be read
RECURSIVE ChunkDocuments(_, _, _, _)
ChunkDocuments(docs, readable, index, texts) ==
    IF index > Len(docs) THEN <<>>
    ELSE (IF ~readable[index] \/ docs[index].extracted_text_path \notin DOMAIN texts
          THEN <<>>
          ELSE ChunkedDocument(docs[index], texts[docs[index].extracted_text_path]))
         \o ChunkDocuments(docs, readable, index + 1, texts)

\* TextChunker.chunk()
chunk(readable) ==
    LET cs == ChunkDocuments(files.extracted.documents, readable, 1, files.texts)
    IN  [files EXCEPT !.chunked = [total_chunks |-> Len(cs), chunks |-> cs]]

\* EmbeddingGenerator.generate(): embeds[i] is FALSE when the embedding of chunk
\* number i fails; the chunk is then left out
generate(embeds) ==
    LET cs == files.chunked.chunks
        done == FilterChunks(cs, {i \in DOMAIN cs : embeds[i]})
    IN  [files EXCEPT !.embedded =
            [embedding_dim |-> DefaultDim, total_chunks |-> Len(done),
             chunks |-> [i \in DOMAIN done |-> [embedding |-> Pad(<<10, 0>>)] @@ done[i]]]]

\* the categories CategoryGenerator knows
CATEGORIES == <<"c1", "c2">>

\* CategoryGenerator.generate()
generateCategories ==
    LET docs == files.extracted.documents
    IN  [files EXCEPT !.categories =
            [c \in DOMAIN CATEGORIES |->
                [id |-> CATEGORIES[c],
                 document_count |->
                     Cardinality({i \in DOMAIN docs : docs[i].category = CATEGORIES[c]})]]]

\* PipelineRunner.copyToWebApp(): copied is the number of files copied before a
\* copy fails, 3 when none does
copyToWebApp(copied) ==
    [files EXCEPT
        !.deployed.embeddings = IF copied >= 1 THEN files.embedded ELSE @,
        !.deployed.documents = IF copied >= 2 THEN files.extracted ELSE @,
        !.deployed.categories = IF copied >= 3 THEN files.categories ELSE @]

\* step 1 of a run, started when no run is under way
StepDownload(fetchPage, page, answers) ==
    /\ runner.step \in {"idle", "complete", "failed"}
    /\ runner.run < MaxRuns
    /\ download(fetchPage, page, answers)
    /\ runner' = [step |-> IF fetchPage # "ok" THEN "failed" ELSE "extract",
                  run |-> runner.run + 1]

\* mutant of Step: the error of a step is logged and the run goes on
StepLogged(name, next, thrown, written) ==
    /\ runner.step = name
    /\ files' = IF thrown THEN files ELSE written
    /\ runner' = [runner EXCEPT !.step = next]
    /\ ret' = [op |-> name, threw |-> thrown]

\* a later step: it does its work on the files, or throws before it wrote
\* anything and the run ends with process.exit(1)
Step(name, next, thrown, written) ==
    /\ runner.step = name
    /\ files' = IF thrown THEN files ELSE written
    /\ runner' = [runner EXCEPT !.step = IF thrown THEN "failed" ELSE next]
    /\ ret' = [op |-> name, threw |-> thrown]

StepExtract(thrown, outcomes) == Step("extract", "chunk", thrown, extract(outcomes))

StepChunk(thrown, readable) == Step("chunk", "generate", thrown, chunk(readable))

StepGenerate(thrown, embeds) == Step("generate", "categories", thrown, generate(embeds))

StepCategories(thrown) == Step("categories", "copy", thrown, generateCategories)

\* mutant of CopyThrown: a copy that fails is logged and not rethrown
CopyThrownNever(copied) == FALSE

\* copyFile rethrows the error of a copy that fails
CopyThrown(copied) == copied < 3

\* step 6: a copy that fails leaves the files copied before it in place
StepCopy(copied) ==
    /\ runner.step = "copy"
    /\ files' = copyToWebApp(copied)
    /\ runner' = [runner EXCEPT !.step = IF CopyThrown(copied) THEN "failed" ELSE "complete"]
    /\ ret' = [op |-> "copy", threw |-> CopyThrown(copied)]

\* ------------------------------------------------------------ QueryRouter
\* mutant of Decide: the thresholds are compared strictly
DecideStrict(results, tHigh, tLow) ==
    LET topScore == results[1].similarity_score
    IN  IF topScore > tHigh
        THEN [mode |-> "rag", confidence |-> topScore,
              reason |-> [text |-> "High similarity to document content", percent |-> topScore],
              relevantChunks |-> results]
        ELSE IF topScore > tLow
        THEN [mode |-> "general", confidence |-> One - topScore,
              reason |-> [text |-> "Low similarity to documents - using general chat",
                          percent |-> topScore],
              relevantChunks |-> results]
        ELSE [mode |-> "general", confidence |-> One,
              reason |-> [text |-> "Query not document-related"], relevantChunks |-> <<>>]

\* mutant of Decide: the last branch reports 1 - topScore as the middle one does
DecideDistance(results, tHigh, tLow) ==
    LET topScore == results[1].similarity_score
    IN  IF topScore >= tHigh
        THEN [mode |-> "rag", confidence |-> topScore,
              reason |-> [text |-> "High similarity to document content", percent |-> topScore],
              relevantChunks |-> results]
        ELSE [mode |-> "general", confidence |-> One - topScore,
              reason |-> [text |-> "Low similarity to documents - using general chat",
                          percent |-> topScore],
              relevantChunks |-> IF topScore >= tLow THEN results ELSE <<>>]

\* the decision of routeQuery on a non-empty list of results
Decide(results, tHigh, tLow) ==
    LET topScore == results[1].similarity_score
    IN  IF topScore >= tHigh
        THEN [mode |-> "rag", confidence |-> topScore,
              reason |-> [text |-> "High similarity to document content", percent |-> topScore],
              relevantChunks |-> results]
        ELSE IF topScore >= tLow
        THEN [mode |-> "general", confidence |-> One - topScore,
              reason |-> [text |-> "Low similarity to documents - using general chat",
                          percent |-> topScore],
              relevantChunks |-> results]
        ELSE [mode |-> "general", confidence |-> One,
              reason |-> [text |-> "Query not document-related"], relevantChunks |-> <<>>]

\* the decision returned for a forced mode
Forced(forceMode) ==
    [mode |-> forceMode, confidence |-> One,
     reason |-> [text |-> IF forceMode = "rag" THEN "Forced RAG mode"
                          ELSE "Forced general chat mode"],
     relevantChunks |-> <<>>]

\* mutant of Fallback: the fallback decision is as sure as a forced one
FallbackCertain(msg) ==
    [mode |-> "general", confidence |-> One,
     reason |-> [text |-> "Error during routing", message |-> msg],
     relevantChunks |-> <<>>, error |-> msg]

\* the catch block of routeQuery: the fallback decision, confidence 0.5
Fallback(msg) ==
    [mode |-> "general", confidence |-> One \div 2,
     reason |-> [text |-> "Error during routing", message |-> msg],
     relevantChunks |-> <<>>, error |-> msg]

RouteOptions == [forceMode : {"", "rag", "general"}, topK : 0..MaxQueryTopK]

\* QueryRouter.routeQuery(userQuery, options) up to its return or its await
RouteCall(userQuery, options) ==
    /\ route.pc = "idle"
    /\ UNCHANGED <<thresholdSimilarity, minimumConfidence>>
    /\ IF userQuery = ""
       THEN /\ ret' = [userQuery |-> userQuery, options |-> options]
                      @@ Thrown("routeQuery", "User query must be a non-empty string")
            /\ route' = route
       ELSE IF options.forceMode \in {"rag", "general"}
       THEN /\ ret' = [op |-> "routeQuery", threw |-> FALSE, userQuery |-> userQuery,
                       options |-> options, searched |-> FALSE, results |-> <<>>,
                       value |-> Forced(options.forceMode)]
            /\ route' = route
       ELSE /\ route' = [pc |-> "embedding", userQuery |-> userQuery, options |-> options,
                         rejection |-> embedText(emIsLoaded, userQuery)]
            /\ ret' = [op |-> "routeQuery.call", threw |-> FALSE]

\* routeQuery from the settling of embedText to its return
RouteEmbedded(out) ==
    /\ route.pc = "embedding"
    /\ route' = IdleCall
    /\ UNCHANGED <<thresholdSimilarity, minimumConfidence>>
    /\ LET found == search(chunks, embeddings, isLoaded, embeddingDim,
                           out.value, route.options.topK, NoFilters, FALSE)
           done == [op |-> "routeQuery", threw |-> FALSE, userQuery |-> route.userQuery,
                    options |-> route.options, embedded |-> out]
       IN  IF ~out.ok
           THEN ret' = done @@ [searched |-> FALSE, results |-> <<>>, value |-> Fallback(out.error)]
           ELSE IF found.threw
           THEN ret' = done @@ [searched |-> FALSE, results |-> <<>>,
                                value |-> Fallback(found.error)]
           ELSE IF Len(found.results) = 0
           THEN ret' = done @@ [searched |-> TRUE, results |-> <<>>,
                                value |-> [mode |-> "general", confidence |-> One,
                                           reason |-> [text |-> "No documents found in vector store"],
                                           relevantChunks |-> <<>>]]
           ELSE ret' = done @@ [searched |-> TRUE, results |-> found.results,
                                value |-> Decide(found.results, thresholdSimilarity,
                                                 minimumConfidence)]

\* QueryRouter.setSimilarityThreshold(threshold)
setSimilarityThreshold(threshold) ==
    /\ UNCHANGED <<minimumConfidence, route>>
    /\ IF threshold < 0 \/ threshold > One
       THEN /\ ret' = [arg |-> threshold]
                      @@ Thrown("setSimilarityThreshold", "Threshold must be between 0 and 1")
            /\ UNCHANGED thresholdSimilarity
       ELSE /\ thresholdSimilarity' = threshold
            /\ ret' = [op |-> "setSimilarityThreshold", arg |-> threshold, threw |-> FALSE]

\* QueryRouter.setMinimumConfidence(threshold)
setMinimumConfidence(threshold) ==
    /\ UNCHANGED <<thresholdSimilarity, route>>
    /\ IF threshold < 0 \/ threshold > One
       THEN /\ ret' = [arg |-> threshold]
                      @@ Thrown("setMinimumConfidence", "Threshold must be between 0 and 1")
            /\ UNCHANGED minimumConfidence
       ELSE /\ minimumConfidence' = threshold
            /\ ret' = [op |-> "setMinimumConfidence", arg |-> threshold, threw |-> FALSE]

\* ------------------------------------------------------- EmbeddingManager
\* EmbeddingManager.loadModel(): the model loads, or the load fails
EmbeddingManager_loadModel(succeeds) ==
    /\ emIsLoaded' = (emIsLoaded \/ succeeds)
    /\ ret' = [op |-> "em.loadModel", threw |-> FALSE, value |-> (emIsLoaded \/ succeeds)]

\* EmbeddingManager.unloadModel()
EmbeddingManager_unloadModel ==
    /\ emIsLoaded' = FALSE
    /\ ret' = [op |-> "em.unloadModel", threw |-> FALSE]

\* --------------------------------------------------- ConversationManager
\* Conversations are records of conversation_id (a positive number for a
\* UUID, 0 for a missing one), updated_at (the clock reading) and messages;
\* a message holds its role, its content (a token sequence) and its timestamp.

\* null, where a conversation object is expected
null == [conversation_id |-> 0, updated_at |-> 0, messages |-> <<>>]

\* one step of Array.prototype.sort((a, b) => new Date(b.updated_at) - new Date(a.updated_at)):
\* the conversation goes behind those that are not older (the sort is stable)
RECURSIVE InsertByUpdated(_, _)
InsertByUpdated(c, sorted) ==
    IF sorted = <<>> THEN <<c>>
    ELSE IF Head(sorted).updated_at >= c.updated_at
         THEN <<Head(sorted)>> \o InsertByUpdated(c, Tail(sorted))
         ELSE <<c>> \o sorted

RECURSIVE SortByUpdated(_, _)
SortByUpdated(list, sorted) ==
    IF list = <<>> THEN sorted
    ELSE SortByUpdated(Tail(list), InsertByUpdated(Head(list), sorted))

\* getAllConversations(): what is stored, most recently updated first
getAllConversations(stored) == SortByUpdated(stored, <<>>)

\* findIndex(c => c.conversation_id === conversationId), 0 for -1
findIndex(list, conversationId) ==
    LET found == {i \in DOMAIN list : list[i].conversation_id = conversationId}
    IN IF found = {} THEN 0 ELSE CHOOSE i \in found : \A j \in found : i <= j

\* getConversation(conversationId)
getConversation(stored, conversationId) ==
    LET all == getAllConversations(stored)
        index == findIndex(all, conversationId)
    IN IF index = 0 THEN null ELSE all[index]

\* createConversation(): the new conversation is pushed behind the sorted ones
createConversation(stored, uuid, time) ==
    LET conversation == [conversation_id |-> uuid, updated_at |-> time, messages |-> <<>>]
    IN [conversation |-> conversation,
        stored |-> Append(getAllConversations(stored), conversation)]

\* updateConversation(conversationId, updates)
updateConversation(stored, conversationId, updates, time) ==
    LET all == getAllConversations(stored)
        index == findIndex(all, conversationId)
    IN IF index = 0 THEN [threw |-> TRUE, stored |-> stored]
       ELSE [threw |-> FALSE,
             stored |-> [all EXCEPT ![index] = [updates EXCEPT !.updated_at = time]]]

\* addMessage(conversationId, role, content)
addMessage(stored, conversationId, role, content, time) ==
    LET conversation == getConversation(stored, conversationId)
        message == [role |-> role, content |-> content, timestamp |-> time]
    IN IF conversation = null THEN [threw |-> TRUE, stored |-> stored]
       ELSE updateConversation(stored, conversationId,
                               [conversation EXCEPT !.messages = Append(@, message)], time)

\* deleteConversation(conversationId)
deleteConversation(stored, conversationId) ==
    LET all == getAllConversations(stored)
        filtered == SelectSeq(all, LAMBDA c : c.conversation_id # conversationId)
    IN IF Len(filtered) = Len(all) THEN [deleted |-> FALSE, stored |-> stored]
       ELSE [deleted |-> TRUE, stored |-> filtered]

\* the default of cleanup's keepCount
keepCount == 20

\* cleanup(keepCount)
cleanup(stored, keep) ==
    LET all == getAllConversations(stored)
    IN IF Len(all) <= keep THEN stored ELSE SubSeq(all, 1, keep)

\* importConversation(data): data without an id (or without messages) is invalid,
\* an id that is already stored is replaced by a new one
importConversation(stored, data, uuid, time) ==
    IF data.conversation_id = 0 THEN [threw |-> TRUE, conversation |-> null, stored |-> stored]
    ELSE LET existing == getConversation(stored, data.conversation_id)
             conversation == [conversation_id |-> IF existing # null THEN uuid
                                                  ELSE data.conversation_id,
                              updated_at |-> time,
                              messages |-> data.messages]
         IN [threw |-> FALSE, conversation |-> conversation,
             stored |-> Append(getAllConversations(stored), conversation)]

\* ----------------------------------------------------------- PromptBuilder
\* the longest message validateMessage accepts
MaxMessageLength == 2000

\* validateMessage(content).valid
validateMessage(content) ==
    /\ content # <<>>
    /\ Trim(content) # <<>>
    /\ Length(Trim(content)) <= MaxMessageLength

\* ------------------------------------------------------------- ModelManager
\* pipeline and currentModel are "" for null; a text-generation pipeline is
\* known by the name of the model it was created for.
Models == {"Xenova/distilgpt2", "Xenova/gpt2"}

\* settings.modelConfig.model_name of loadSettings' defaultSettings
DefaultModel == "Xenova/distilgpt2"

\* unloadModel()
unloadModel ==
    /\ pipeline' = ""
    /\ currentModel' = ""
    /\ mmIsLoaded' = FALSE

\* loadModel(modelName) up to its first await: the flag is cleared and the
\* call waits for the library and the pipeline; who called it is kept with it
loadModel(modelName, caller) ==
    /\ mmIsLoaded' = FALSE
    /\ loads' = Append(loads, [pc |-> "loading", modelName |-> modelName,
                               by |-> caller, ok |-> FALSE])

\* loadModel(modelName) after its awaits: the try block's assignments when the
\* pipeline was created, the catch block's when the import or the creation failed
loaded(modelName, created) ==
    IF created
    THEN /\ pipeline' = modelName
         /\ currentModel' = modelName
         /\ mmIsLoaded' = TRUE
    ELSE /\ mmIsLoaded' = FALSE
         /\ UNCHANGED <<pipeline, currentModel>>

\* getCurrentModel()
getCurrentModel == currentModel

\* --------------------------------------------------------------- GPT2ChatApp
\* currentConversation is the conversation object the app holds (null before
\* one is loaded), currentConversationId is settings.currentConversationId,
\* inputDisabled the disabled property of the message input and the send
\* button, settingsDisabled that of the model selector.  sends holds the
\* sendMessage calls that reached their await, loads the loadModel calls.
\* Every handler reads the clock once; writes to localStorage succeed.

\* loadConversation(conversation)
loadConversation(conversation) ==
    /\ currentConversation' = conversation
    /\ currentConversationId' = conversation.conversation_id

\* createNewConversation(), over what is stored when it is called
createNewConversation(stored) ==
    LET created == createConversation(stored, uuids + 1, now)
    IN /\ conversations' = created.stored
       /\ uuids' = uuids + 1
       /\ loadConversation(created.conversation)

\* the conversation the sidebar shows at a position, null past the last one
Listed(i) ==
    LET all == getAllConversations(conversations)
    IN IF i \in DOMAIN all THEN all[i] ELSE null

\* the sidebar's new-conversation button
CreateNewConversation ==
    /\ now < MaxNow
    /\ createNewConversation(conversations)
    /\ now' = now + 1
    /\ ret' = [op |-> "createNewConversation", threw |-> FALSE]
    /\ UNCHANGED <<isGenerating, inputDisabled, sends, settingsDisabled>>

\* a click on a conversation of the sidebar: loadConversation(conversation)
SelectConversation(i) ==
    /\ now < MaxNow
    /\ Listed(i) # null
    /\ loadConversation(Listed(i))
    /\ now' = now + 1
    /\ ret' = [op |-> "loadConversation", threw |-> FALSE]
    /\ UNCHANGED <<conversations, uuids, isGenerating, inputDisabled, sends, settingsDisabled>>

\* a confirmed click on a conversation's delete button: deleteConversation(conversation)
DeleteConversation(i) ==
    LET conversation == Listed(i)
        result == deleteConversation(conversations, conversation.conversation_id)
        allConversations == getAllConversations(result.stored)
    IN /\ now < MaxNow
       /\ conversation # null
       /\ IF result.deleted /\ currentConversation.conversation_id = conversation.conversation_id
          THEN IF Len(allConversations) > 0
               THEN /\ conversations' = result.stored
                    /\ loadConversation(allConversations[1])
                    /\ UNCHANGED uuids
               ELSE createNewConversation(result.stored)
          ELSE /\ conversations' = result.stored
               /\ UNCHANGED <<uuids, currentConversation, currentConversationId>>
       /\ now' = now + 1
       /\ ret' = [op |-> "deleteConversation", threw |-> FALSE]
       /\ UNCHANGED <<isGenerating, inputDisabled, sends, settingsDisabled>>

\* handleUpload() once the file is chosen and parsed
HandleUpload(data) ==
    LET imported == importConversation(conversations, data, uuids + 1, now)
    IN /\ now < MaxNow
       /\ IF imported.threw
          THEN UNCHANGED <<conversations, uuids, currentConversation, currentConversationId>>
          ELSE /\ conversations' = imported.stored
               /\ uuids' = IF imported.conversation.conversation_id = data.conversation_id
                           THEN uuids ELSE uuids + 1
               /\ loadConversation(imported.conversation)
       /\ now' = now + 1
       /\ ret' = [op |-> "handleUpload", threw |-> imported.threw]
       /\ UNCHANGED <<isGenerating, inputDisabled, sends, settingsDisabled>>

\* mutant of Finally: after an error the flag and the input stay as they are
FinallyOnSuccess(caught) ==
    IF caught THEN UNCHANGED <<inputDisabled, isGenerating>>
    ELSE /\ inputDisabled' = FALSE
         /\ isGenerating' = FALSE

\* the finally block of sendMessage: setInputEnabled(true), isGenerating = false,
\* whether an error was caught or not
Finally(caught) ==
    /\ inputDisabled' = FALSE
    /\ isGenerating' = FALSE

\* sendMessage() up to its await: nothing happens while a call is generating or
\* for an invalid message; an error before the await (no conversation, the
\* model not loaded) is caught at once; else the user's message is stored and
\* the call waits for the generator
SendMessage(value) ==
    LET userMessage == Trim(value)
        conversationId == currentConversation.conversation_id
        added == addMessage(conversations, conversationId, "user", userMessage, now)
        rejection == generateResponse(mmIsLoaded /\ pipeline # "")
        started == ~isGenerating /\ userMessage # <<>> /\ validateMessage(userMessage)
    IN /\ now < MaxNow
       /\ IF ~started
          THEN UNCHANGED <<conversations, currentConversation, isGenerating, inputDisabled, sends>>
          ELSE IF currentConversation = null \/ added.threw
          THEN /\ Finally(TRUE)
               /\ UNCHANGED <<conversations, currentConversation, sends>>
          ELSE IF rejection # ""
          THEN /\ conversations' = added.stored
               /\ Finally(TRUE)
               /\ UNCHANGED <<currentConversation, sends>>
          ELSE /\ conversations' = added.stored
               /\ inputDisabled' = TRUE
               /\ isGenerating' = TRUE
               /\ sends' = Append(sends, [pc |-> "generating", conversation |-> conversationId])
               /\ UNCHANGED currentConversation
       /\ now' = now + 1
       /\ ret' = [op |-> "sendMessage", threw |-> FALSE, started |-> started,
                  generating |-> started /\ currentConversation # null /\ ~added.threw
                                 /\ rejection = ""]
       /\ UNCHANGED <<uuids, currentConversationId, settingsDisabled>>

\* the texts the generator returns
AppTexts == {<<"w">>, <<"Assistant:", "w", NL, "User:", "w">>}

GenerateOutcomes == {Resolved(t) : t \in AppTexts} \cup {Rejected("generation failed")}

\* sendMessage() after its await: the reply is extracted and stored, the held
\* conversation read again; an error is caught; the finally block runs
SendGenerated(k, generated) ==
    LET response == extractResponse(generated.value)
        conversationId == currentConversation.conversation_id
        added == addMessage(conversations, conversationId, "assistant", response, now)
        caught == ~generated.ok \/ added.threw
    IN /\ k \in DOMAIN sends
       /\ sends[k].pc = "generating"
       /\ IF caught
          THEN UNCHANGED <<conversations, currentConversation>>
          ELSE /\ conversations' = added.stored
               /\ currentConversation' = getConversation(added.stored, conversationId)
       /\ Finally(caught)
       /\ sends' = [sends EXCEPT ![k].pc = "done"]
       /\ now' = now + 1
       /\ ret' = [op |-> "sendMessage.generated", threw |-> caught,
                  asked |-> sends[k].conversation, response |-> response, at |-> now]
       /\ UNCHANGED <<uuids, currentConversationId, settingsDisabled>>

\* handleSettingsChange('model', value, config): the selector is disabled and
\* switchModel(value) called, which unloads the model and calls loadModel
HandleSettingsChange(value) ==
    /\ ~settingsDisabled
    /\ Len(loads) < MaxLoads
    /\ settingsDisabled' = TRUE
    /\ unloadModel
    /\ loadModel(value, "switchModel")
    /\ ret' = [op |-> "switchModel", threw |-> FALSE]
    /\ UNCHANGED <<conversations, uuids, currentConversation, currentConversationId,
                   isGenerating, inputDisabled, sends, now>>

\* init() after its await of loadModel: the conversation of the settings is
\* restored, or a new one created
Restore ==
    LET conversation == getConversation(conversations, currentConversationId)
    IN IF currentConversationId # 0 /\ conversation # null
       THEN /\ loadConversation(conversation)
            /\ UNCHANGED <<conversations, uuids>>
       ELSE createNewConversation(conversations)

\* a loadModel call settles, the pipeline created or not, and its caller goes
\* on: init() restores the conversation, handleSettingsChange enables the selector
LoadSettled(k, created) ==
    /\ k \in DOMAIN loads
    /\ loads[k].pc = "loading"
    /\ loaded(loads[k].modelName, created)
    /\ loads' = [loads EXCEPT ![k].pc = "done", ![k].ok = created]
    /\ IF loads[k].by = "init"
       THEN /\ Restore
            /\ now' = now + 1
            /\ UNCHANGED settingsDisabled
       ELSE /\ settingsDisabled' = FALSE
            /\ UNCHANGED <<conversations, uuids, currentConversation, currentConversationId, now>>
    /\ ret' = [op |-> "loadModel", threw |-> FALSE, by |-> loads[k].by]
    /\ UNCHANGED <<isGenerating, inputDisabled, sends>>

\* ------------------------------------------------------ specifications
TopKs == (0 - 1)..MaxTopK

\* an operation of one component leaves the other components as they are
OnStore(A) == A /\ UNCHANGED <<dmVars, emVars, routerVars, pipeVars, offlineVars, calls, appVars, mmVars>>

OnDocuments(A) == A /\ UNCHANGED <<storeVars, emVars, routerVars, pipeVars, offlineVars, calls, appVars, mmVars>>

OnEmbedder(A) == A /\ UNCHANGED <<storeVars, dmVars, routerVars, pipeVars, offlineVars, calls, appVars, mmVars>>

OnRouter(A) == A /\ UNCHANGED <<storeVars, dmVars, emVars, pipeVars, offlineVars, calls, appVars, mmVars>>

OnPipeline(A) == A /\ UNCHANGED <<storeVars, dmVars, emVars, routerVars, offlineVars, calls, appVars, mmVars>>

OnOffline(A) == A /\ UNCHANGED <<storeVars, dmVars, emVars, routerVars, pipeVars, calls, appVars, mmVars>>

OnCalls(A) == A /\ UNCHANGED <<storeVars, dmVars, emVars, routerVars, pipeVars, offlineVars, appVars, mmVars>>

OnApp(A) ==
    A /\ UNCHANGED <<storeVars, dmVars, emVars, routerVars, pipeVars, offlineVars, mmVars, calls>>

OnBrowser(A) ==
    A /\ UNCHANGED <<storeVars, dmVars, emVars, routerVars, pipeVars, offlineVars, calls>>

\* no page is open
InitBrowser ==
    /\ conversations = <<>>
    /\ uuids = 0
    /\ currentConversation = null
    /\ currentConversationId = 0
    /\ isGenerating = FALSE
    /\ inputDisabled = FALSE
    /\ settingsDisabled = FALSE
    /\ sends = <<>>
    /\ now = 1
    /\ pipeline = ""
    /\ currentModel = ""
    /\ mmIsLoaded = FALSE
    /\ loads = <<>>

InitRouter ==
    /\ thresholdSimilarity = DefaultThresholdSimilarity
    /\ minimumConfidence = DefaultMinimumConfidence
    /\ route = IdleCall

InitOnline ==
    /\ emIsLoaded = FALSE
    /\ InitRouter
    /\ promptBuilder = "PromptBuilder"
    /\ query = IdleCall
    /\ calls = NoCalls

InitOthers ==
    /\ InitOnline
    /\ InitBrowser
    /\ files = NoFiles
    /\ runner = [step |-> "idle", run |-> 0]

InitDocuments ==
    /\ documents = <<>>
    /\ categories = <<>>
    /\ documentsById = <<>>
    /\ documentsByCategory = <<>>
    /\ dmIsLoaded = FALSE

InitStore ==
    /\ chunks = <<>>
    /\ embeddings = <<>>
    /\ isLoaded = FALSE
    /\ embeddingDim = DefaultDim

\* search as a function of a loaded index and its arguments: the index is any
\* well-formed embeddings file, loaded
InitSearch ==
    /\ \E d \in IndexFiles(MaxChunks) :
        /\ chunks = d.chunks
        /\ embeddings = [i \in DOMAIN d.chunks |-> Float32Array(d.chunks[i].embedding.data)]
        /\ isLoaded = TRUE
        /\ embeddingDim = d.embedding_dim
        /\ ret = [op |-> "loadEmbeddings", threw |-> FALSE, data |-> d]
    /\ InitDocuments
    /\ InitOthers

\* search leaves the store as it is, so one call per behaviour stands for every call
NextSearch ==
    \E q \in QueryVecs, k \in TopKs, f \in FilterSets, c \in BOOLEAN :
        ret.op # "search" /\ OnStore(Search(q, k, f, c))

SpecSearch == InitSearch /\ [][NextSearch]_vars

\* extractSources as a function of the catalog and the retrieved chunks: the
\* catalog is any documents file loaded, the chunks any list over three documents
SourceDocs == {"A", "B", "C"}

RetrievedLists ==
    {[k \in DOMAIN ids |->
        [similarity_score |-> One]
        @@ MkChunk(k, [document_id |-> ids[k], category |-> "c1", language |-> "uk"],
                   Pad(<<10, 0>>))] : ids \in SeqsUpTo(SourceDocs, MaxRetrieved)}

InitSources ==
    /\ InitStore
    /\ \E d \in {x \in DocumentFiles : x.has_documents} :
        /\ documents = d.documents
        /\ categories = <<Category("c1")>>
        /\ documentsById = ById(d.documents)
        /\ documentsByCategory = ByCategory(d.documents)
        /\ dmIsLoaded = TRUE
    /\ InitOthers
    /\ ret = [op |-> "loadMetadata", threw |-> FALSE]

NextSources ==
    \E r \in RetrievedLists : ret.op # "extractSources" /\ OnPipeline(ExtractSources(r))

SpecSources == InitSources /\ [][NextSources]_vars

\* the VectorStore and the DocumentManager through their whole life: loads of
\* well-formed and of defective files, lookups, statistics, clear
LifeFiles == IndexFiles(1) \cup CorruptFiles(1)

InitLife ==
    /\ InitStore
    /\ InitDocuments
    /\ InitOthers
    /\ ret = [op |-> "new", threw |-> FALSE]

NextLife ==
    \/ \E d \in LifeFiles : OnStore(loadEmbeddings(d))
    \/ OnStore(clear)
    \/ \E q \in QueryVecs, f \in {NoFilters, [NoFilters EXCEPT !.category = "c1"]} :
            OnStore(Search(q, 1, f, FALSE))
    \/ \E id \in {"k1", "zz"} : OnStore(getChunkById(id))
    \/ \E id \in {"A", "zz"} : OnStore(getChunksByDocument(id))
    \/ OnStore(getStats)
    \/ \E d \in DocumentFiles, c \in CategoryFiles : OnDocuments(loadMetadata(d, c))
    \/ \E id \in {"A", "zz"} : OnDocuments(DocumentManager_getDocumentById(id))
    \/ \E id \in {"c1", "zz"} : OnDocuments(DocumentManager_getDocumentsByCategory(id))
    \/ OnDocuments(DocumentManager_getStats)
    \/ OnDocuments(DocumentManager_clear)

SpecLife == InitLife /\ [][NextLife]_vars

\* formatConversationHistory on every list of up to MaxMessages messages, every
\* budget up to MaxBudget tokens and both counters
Messages ==
    [role : {"user", "assistant"}, content : {<<"hi">>, <<"lorem", " ", "ipsum">>}]

InitHistory ==
    /\ InitStore
    /\ InitDocuments
    /\ InitOthers
    /\ ret = [op |-> "new", threw |-> FALSE]

NextHistory ==
    \E ms \in SeqsUpTo(Messages, MaxMessages), b \in 0..MaxBudget, c \in TokenCounters :
        ret.op = "new" /\ OnPipeline(FormatConversationHistory(ms, b, c))

SpecHistory == InitHistory /\ [][NextHistory]_vars

\* extractResponse on every generated text of up to MaxTextLen tokens
TextTokens == {"w", " ", NL, "User:", "Assistant:", "Bot:"}

NextExtract ==
    \E t \in SeqsUpTo(TextTokens, MaxTextLen) :
        ret.op = "new" /\ OnPipeline(ExtractResponse(t))

SpecExtract == InitHistory /\ [][NextExtract]_vars

\* createChunks on every list of up to MaxSentences sentences, the sentences
\* being of 2, 99, 100, 200 and 300 estimated tokens in one word, or sixty words
\* of one letter (34 tokens)
Sentences ==
    {<<7>>, <<346>>, <<350>>, <<700>>, <<1050>>, [w \in 1..60 |-> 1]}

ChunkedDocs ==
    {[id |-> "A", title |-> "Statute", category |-> "c1", language |-> "uk",
      source_url |-> "u/A", filename |-> "A.pdf"],
     [id |-> "B", title |-> "Rules", category |-> "c2", language |-> "en",
      source_url |-> "u/B", filename |-> "B.docx"]}

NextChunker ==
    \E ss \in SeqsUpTo(Sentences, MaxSentences), doc \in ChunkedDocs :
        ret.op = "new" /\ OnOffline(CreateChunks(ss, doc))

SpecChunker == InitHistory /\ [][NextChunker]_vars

\* download run once over a disk that holds the files an earlier run left, the
\* page listing up to MaxLinks of four links: two whose titles are sanitized to
\* one file name, a Google Drive link with a file id and one without
DocumentLinks ==
    {[title |-> <<"a", " ", "b">>, url |-> <<"kdpu.edu.ua", "/files/", "a1.pdf">>,
      category |-> "c1", language |-> "uk", type |-> "pdf"],
     [title |-> <<"a", "?", "b">>, url |-> <<"kdpu.edu.ua", "/files/", "a2.pdf">>,
      category |-> "c1", language |-> "uk", type |-> "pdf"],
     [title |-> <<"c">>, url |-> <<"drive.google.com", "/file/d/", "F1">>,
      category |-> "c2", language |-> "en", type |-> "google_drive"],
     [title |-> <<"d">>, url |-> <<"drive.google.com", "/drive/folders/", "F2">>,
      category |-> "uncategorized", language |-> "en", type |-> "google_drive"]}

\* what the server and the disk answer to the download of one file
Answers == {"ok", "HTTP 404"}

\* the files a run of download over these links can leave on the disk
RawPaths ==
    {downloadDocument(l, "ok", {}, 0).entry.filepath :
        l \in {d \in DocumentLinks : ~downloadDocument(d, "ok", {}, 0).threw}}

InitDownload ==
    /\ InitStore
    /\ InitDocuments
    /\ InitOnline
    /\ InitBrowser
    /\ runner = [step |-> "idle", run |-> 0]
    /\ files \in {[NoFiles EXCEPT !.raw = raw] : raw \in SUBSET RawPaths}
    /\ ret = [op |-> "new", threw |-> FALSE]

NextDownload ==
    \/ \E page \in SeqsUpTo(DocumentLinks, MaxLinks), answers \in [1..MaxLinks -> Answers] :
          /\ ret.op = "new"
          /\ \A i \in 1..MaxLinks : i > Len(page) => answers[i] = "ok"
          /\ OnOffline(download("ok", page, answers) /\ runner' = runner)
    \/ /\ ret.op = "new"
       /\ OnOffline(download("failed", <<>>, [i \in 1..MaxLinks |-> "ok"]) /\ runner' = runner)

SpecDownload == InitDownload /\ [][NextDownload]_vars


\* cleanText on every text of up to MaxCleanLen letters, blanks and newlines
CleanChars == {"A", "B", " ", NL}

NextClean ==
    /\ ret.op = "new"
    /\ \E text \in SeqsUpTo(CleanChars, MaxCleanLen) : OnOffline(CleanText(text))

SpecClean == InitHistory /\ [][NextClean]_vars

\* the offline pipeline run again and again over the same disk: the page lists
\* no link, one link, a link that cannot be downloaded before one that can, or
\* two links whose files have the same name; the text of a document is empty or
\* makes one chunk; every step fails as a whole or for single documents and chunks
RunPages ==
    {page \in SeqsUpTo(DocumentLinks, MaxRunLinks) :
        \/ Len(page) <= 1 /\ \A i \in DOMAIN page : page[i].title = <<"a", " ", "b">>
        \/ Len(page) = 2 /\ page[1].title = <<"d">> /\ page[2].title = <<"c">>
        \/ Len(page) = 2 /\ page[1].title = <<"a", " ", "b">> /\ page[2].title = <<"a", "?", "b">>}

ExtractedTexts == {<<>>, <<<<350>>>>}

ExtractOutcomes ==
    {[failed |-> TRUE, text |-> <<>>]} \cup {[failed |-> FALSE, text |-> t] : t \in ExtractedTexts}

\* the most chunks a run can produce
MaxRunChunks == MaxRunLinks

\* the choices for the documents and chunks from number n on are of no effect
Unused(choices, n, choice) == \A i \in DOMAIN choices : i > n => choices[i] = choice

NextOffline ==
    \/ \E fetchPage \in {"ok", "failed"}, page \in RunPages, answers \in [1..MaxLinks -> Answers] :
          /\ fetchPage = "failed" => page = <<>>
          /\ \A i \in 1..MaxLinks : i > Len(page) => answers[i] = "ok"
          /\ OnOffline(StepDownload(fetchPage, page, answers))
    \/ \E thrown \in BOOLEAN, outcomes \in [1..MaxRunLinks -> ExtractOutcomes] :
          /\ runner.step = "extract"
          /\ Unused(outcomes, IF thrown THEN 0 ELSE Len(files.manifest.documents),
                    [failed |-> TRUE, text |-> <<>>])
          /\ OnOffline(StepExtract(thrown, outcomes))
    \/ \E thrown \in BOOLEAN, readable \in [1..MaxRunLinks -> BOOLEAN] :
          /\ runner.step = "chunk"
          /\ Unused(readable, IF thrown THEN 0 ELSE Len(files.extracted.documents), TRUE)
          /\ OnOffline(StepChunk(thrown, readable))
    \/ \E thrown \in BOOLEAN, embeds \in [1..MaxRunChunks -> BOOLEAN] :
          /\ runner.step = "generate"
          /\ Unused(embeds, IF thrown THEN 0 ELSE Len(files.chunked.chunks), TRUE)
          /\ OnOffline(StepGenerate(thrown, embeds))
    \/ \E thrown \in BOOLEAN : OnOffline(StepCategories(thrown))
    \/ \E copied \in 0..3 : OnOffline(StepCopy(copied))

SpecOffline == InitHistory /\ [][NextOffline]_vars

\* the RAG pipeline at run time: a RAGPipeline over an embedder that is loaded,
\* index and catalog loaded, cleared and loaded again while a query is in flight
QueryFiles ==
    IndexFilesOver({<<[document_id |-> "A", category |-> "c1", language |-> "uk"], Pad(<<10, 0>>)>>,
                    <<[document_id |-> "B", category |-> "c2", language |-> "en"], Pad(<<6, 8>>)>>},
                   MaxQueryChunks)

Init ==
    /\ InitStore
    /\ InitDocuments
    /\ InitRouter
    /\ InitBrowser
    /\ emIsLoaded \in BOOLEAN
    /\ promptBuilder \in PromptBuilders
    /\ query = IdleCall
    /\ calls = NoCalls
    /\ files = NoFiles
    /\ runner = [step |-> "idle", run |-> 0]
    /\ ret = [op |-> "new", threw |-> FALSE]

Next ==
    \/ \E d \in QueryFiles : OnStore(loadEmbeddings(d))
    \/ OnStore(clear)
    \/ \E d \in {x \in DocumentFiles : Len(x.documents) = 1} :
            OnDocuments(loadMetadata(d, [has_categories |-> TRUE, categories |-> <<Category("c1")>>]))
    \/ \E q \in {"q", ""}, o \in QueryOptions : OnPipeline(QueryCall(q, o))
    \/ \E out \in EmbedOutcomes(query), g \in BOOLEAN : OnPipeline(QueryEmbedded(out, g))
    \/ \E out \in GenOutcomes(query) : OnPipeline(QueryGenerated(out))

Spec == Init /\ [][Next]_vars

\* up to MaxCalls query calls in flight at the same time, of a pipeline built
\* with either prompt builder, over an index, a catalog and an embedder that are
\* loaded, or not, before the first call
ConcurrentFile ==
    {d \in QueryFiles : /\ Len(d.chunks) = 2
                        /\ d.chunks[1].document_id = "A"
                        /\ d.chunks[2].document_id = "B"}

ConcurrentQueries == {"q1", "q2", "q3"}

ConcurrentOptions ==
    {o \in QueryOptions : o.includeMetadata /\ o.topK \in {0, MaxQueryTopK}}

InitConcurrent ==
    /\ InitStore
    /\ InitDocuments
    /\ InitRouter
    /\ InitBrowser
    /\ emIsLoaded = FALSE
    /\ promptBuilder \in PromptBuilders
    /\ query = IdleCall
    /\ calls = NoCalls
    /\ files = NoFiles
    /\ runner = [step |-> "idle", run |-> 0]
    /\ ret = [op |-> "new", threw |-> FALSE]

NoCallYet == ret.op \in {"new", "loadEmbeddings", "loadMetadata", "em.loadModel"}

NextConcurrent ==
    \/ \E d \in ConcurrentFile : NoCallYet /\ OnStore(loadEmbeddings(d))
    \/ /\ NoCallYet
       /\ OnDocuments(loadMetadata([has_documents |-> TRUE, documents |-> <<DocB, DocA>>],
                                   [has_categories |-> TRUE, categories |-> <<Category("c1")>>]))
    \/ NoCallYet /\ OnEmbedder(EmbeddingManager_loadModel(TRUE))
    \/ \E id \in 1..MaxCalls, q \in ConcurrentQueries, o \in ConcurrentOptions :
          OnCalls(ConcurrentCall(id, q, o))
    \/ \E id \in 1..MaxCalls : OnCalls(ConcurrentEmbedded(id))
    \/ \E id \in 1..MaxCalls : OnCalls(ConcurrentGenerated(id))

SpecConcurrent == InitConcurrent /\ [][NextConcurrent]_vars

\* the router at run time: thresholds tuned, the index loaded and cleared and the
\* embedder loaded and unloaded between and during routing calls
Thresholds == {0 - 10, 0, 30, DefaultMinimumConfidence, DefaultThresholdSimilarity, 80, One + 10}

InitRouting ==
    /\ InitStore
    /\ InitDocuments
    /\ InitRouter
    /\ InitBrowser
    /\ emIsLoaded = FALSE
    /\ promptBuilder = "PromptBuilder"
    /\ query = IdleCall
    /\ calls = NoCalls
    /\ files = NoFiles
    /\ runner = [step |-> "idle", run |-> 0]
    /\ ret = [op |-> "new", threw |-> FALSE]

NextRouting ==
    \/ \E d \in QueryFiles : OnStore(loadEmbeddings(d))
    \/ OnStore(clear)
    \/ \E ok \in BOOLEAN : OnEmbedder(EmbeddingManager_loadModel(ok))
    \/ OnEmbedder(EmbeddingManager_unloadModel)
    \/ \E t \in Thresholds : OnRouter(setSimilarityThreshold(t))
    \/ \E t \in Thresholds : OnRouter(setMinimumConfidence(t))
    \/ \E q \in {"q", ""}, o \in RouteOptions : OnRouter(RouteCall(q, o))
    \/ \E out \in EmbedOutcomes(route) : OnRouter(RouteEmbedded(out))

SpecRouter == InitRouting /\ [][NextRouting]_vars

\* ------------------------------------------------- the chat application
\* The page is opened: the constructor has run and init() waits for the model
\* of the settings to load.  What localStorage holds is left from earlier
\* visits: no conversation, one, or as many as cleanup would keep, and the
\* settings name the most recent of them or none.
StoredBefore == {0, 1, keepCount}

Stored(n) ==
    [i \in 1..n |-> [conversation_id |-> i, updated_at |-> i - n, messages |-> <<>>]]

\* what the user types: nothing, a blank, a word
UserMessages == {<<>>, <<" ">>, <<"w">>}

\* the files the user uploads: not a conversation, a conversation of another
\* browser, the export of the conversation that is open
ImportData == {null, [null EXCEPT !.conversation_id = 0 - 1]}

InitPage(before) ==
    /\ InitStore
    /\ InitDocuments
    /\ InitOnline
    /\ files = NoFiles
    /\ runner = [step |-> "idle", run |-> 0]
    /\ conversations \in {Stored(n) : n \in before}
    /\ uuids = Len(conversations)
    /\ currentConversation = null
    /\ currentConversationId \in {0, Len(conversations)}
    /\ isGenerating = FALSE
    /\ inputDisabled = FALSE
    /\ settingsDisabled = FALSE
    /\ sends = <<>>
    /\ now = 1
    /\ pipeline = ""
    /\ currentModel = ""
    /\ mmIsLoaded = FALSE
    /\ loads = <<[pc |-> "loading", modelName |-> DefaultModel, by |-> "init", ok |-> FALSE]>>
    /\ ret = [op |-> "new", threw |-> FALSE]

InitApp == InitPage(StoredBefore)

NextApp ==
    \/ \E value \in UserMessages : OnApp(SendMessage(value))
    \/ \E k \in 1..MaxNow, generated \in GenerateOutcomes : OnApp(SendGenerated(k, generated))
    \/ OnApp(CreateNewConversation)
    \/ \E i \in 1..MaxPick : OnApp(SelectConversation(i))
    \/ \E i \in 1..MaxPick : OnApp(DeleteConversation(i))
    \/ \E data \in ImportData \cup {currentConversation} : OnApp(HandleUpload(data))
    \/ \E value \in Models : OnBrowser(HandleSettingsChange(value))
    \/ \E k \in 1..MaxLoads, created \in BOOLEAN : OnBrowser(LoadSettled(k, created))

SpecApp == InitApp /\ [][NextApp]_vars

\* the pipeline's promise is rejected
GenerationFails == \E k \in 1..MaxNow : OnApp(SendGenerated(k, Rejected("generation failed")))

\* a generation that was started settles in the end: the pipeline's promise does
\* not stay pending for ever.  The condition is put on the rejection, which is
\* enabled exactly when the other outcomes are and is disabled by each of them.
\* The page is opened over few conversations.
SpecAppLive == InitPage({0, 1}) /\ [][NextApp]_vars /\ WF_vars(GenerationFails)


\* ------------------------------------------------------- claims on search
\* the state right after a search that returned a list
Searched == ret.op = "search" /\ ~ret.threw

\* the chunks a search ranks, stated from the filter it was given
Matching(filters) ==
    {i \in DOMAIN chunks :
        /\ filters.category # "" => chunks[i].category = filters.category
        /\ filters.language # "" => chunks[i].language = filters.language
        /\ filters.document_id # "" => chunks[i].document_id = filters.document_id}

ScoreOf(i) == Score(ret.args.queryEmbedding, embeddings[i], ret.args.useCosineSim)

\* i is ranked before j: a higher score, or the same score and stored earlier
Before(i, j) == ScoreOf(i) > ScoreOf(j) \/ (ScoreOf(i) = ScoreOf(j) /\ i < j)

TopIndices == {ret.top[k].index : k \in DOMAIN ret.top}

\* C5: for a loaded index, a query of the index's dimension and topK >= 1, search
\* returns min(topK, number of candidates) candidates, each with its score, in
\* decreasing score order with equal scores in storage order, and every candidate
\* left out ranks after every candidate returned
C5_TopKRanking ==
    (Searched /\ ret.args.topK >= 1) =>
        /\ Len(ret.top) = Min(ret.args.topK, Cardinality(Matching(ret.args.filters)))
        /\ TopIndices \subseteq Matching(ret.args.filters)
        /\ \A k \in DOMAIN ret.top :
              /\ ret.top[k].score = ScoreOf(ret.top[k].index)
              /\ ret.results[k] = [similarity_score |-> ScoreOf(ret.top[k].index)]
                                  @@ chunks[ret.top[k].index]
        /\ \A k, l \in DOMAIN ret.top :
              k < l => Before(ret.top[k].index, ret.top[l].index)
        /\ \A i \in Matching(ret.args.filters) \ TopIndices :
              \A j \in TopIndices : Before(j, i)

\* a search that had to cut the ranking and to break a tie by storage order
C5_Witness ==
    /\ Searched
    /\ ret.args.topK = 2
    /\ Cardinality(Matching(ret.args.filters)) = 3
    /\ Len(ret.top) = 2
    /\ ret.top[1].score = ret.top[2].score
    /\ \E i \in Matching(ret.args.filters) \ TopIndices : ScoreOf(i) = ret.top[2].score

\* C6: every chunk a search returns equals the filter in each supplied field, and
\* the chunks that do are all ranked: all of them are returned when topK allows
C6_FilterIff ==
    Searched =>
        /\ \A k \in DOMAIN ret.results :
              /\ ret.args.filters.category # "" =>
                    ret.results[k].category = ret.args.filters.category
              /\ ret.args.filters.language # "" =>
                    ret.results[k].language = ret.args.filters.language
              /\ ret.args.filters.document_id # "" =>
                    ret.results[k].document_id = ret.args.filters.document_id
        /\ TopIndices \subseteq Matching(ret.args.filters)
        /\ ret.args.topK >= Cardinality(Matching(ret.args.filters)) =>
              TopIndices = Matching(ret.args.filters)

\* a search with all three filters supplied that kept one chunk and dropped two
C6_Witness ==
    /\ Searched
    /\ ret.args.filters.category # ""
    /\ ret.args.filters.language # ""
    /\ ret.args.filters.document_id # ""
    /\ Len(chunks) = 3
    /\ Len(ret.results) = 1

\* C7: search with topK <= 0 fails (InvalidArgument) instead of returning a list
C7_TopKRejected ==
    (ret.op = "search" /\ ret.args.topK <= 0) => ret.threw

\* C7, the stronger half: at least no non-empty list comes back for topK <= 0
C7_NoListForBadTopK ==
    (ret.op = "search" /\ ret.args.topK <= 0 /\ ~ret.threw) => ret.results = <<>>

\* ------------------------------------- claims on loading and immutability
\* what the loader is to validate: embedding_dim present, every vector of that
\* length, every chunk with a non-empty chunk_id, document_id and text
WellFormed(d) ==
    /\ d.embedding_dim # 0
    /\ \A i \in DOMAIN d.chunks :
          /\ d.chunks[i].embedding.kind \in {"array", "f32"}
          /\ Len(d.chunks[i].embedding.data) = d.embedding_dim
          /\ d.chunks[i].chunk_id # ""
          /\ d.chunks[i].document_id # ""
          /\ d.chunks[i].text # ""

\* C8: loadEmbeddings fails on every file that is not well-formed (so a load
\* that succeeded was given a well-formed file), and the failed load does not
\* make the store loaded
C8_CorruptIndexRejected ==
    (ret.op = "loadEmbeddings" /\ ~ret.threw) => WellFormed(ret.data)

\* C9 as claimed: once loaded, no operation (clear and a repeated load
\* included) changes the loaded chunks, embeddings or documents
C9_LoadedDataNeverChanges ==
    [][/\ isLoaded => UNCHANGED <<chunks, embeddings>>
       /\ dmIsLoaded => UNCHANGED documents]_vars

\* C9 as amended: search, the lookups and the statistics leave chunks, embeddings
\* and documents as they are; only loadEmbeddings and clear change the store's,
\* only loadMetadata and clear the catalog's
C9_OnlyLoadAndClearChange ==
    [][/\ ret'.op \notin {"loadEmbeddings", "clear"} =>
              UNCHANGED <<chunks, embeddings, isLoaded, embeddingDim>>
       /\ ret'.op \notin {"loadMetadata", "dm.clear"} =>
              UNCHANGED <<documents, categories, documentsById, documentsByCategory, dmIsLoaded>>]_vars

\* index and catalog loaded and non-empty, and a search has just run on them
C9_Witness ==
    /\ isLoaded /\ chunks # <<>> /\ Len(embeddings) = Len(chunks)
    /\ dmIsLoaded /\ documents # <<>>
    /\ ret.op = "search" /\ ~ret.threw /\ ret.results # <<>>

\* ------------------------------------------------ claims on extractSources
\* the document ids of the chunks given to the last extractSources call
ArgIds == [k \in DOMAIN ret.arg |-> ret.arg[k].document_id]

FirstPos(ids, id) == CHOOSE k \in DOMAIN ids : ids[k] = id /\ \A l \in DOMAIN ids : ids[l] = id => k <= l

\* C4: extractSources returns one source per document id of the chunks that the
\* catalog knows, no id twice, ordered by the first occurrence of the id among
\* the chunks, each source carrying the catalog's fields of that document
C4_SourcesFirstOccurrence ==
    ret.op = "extractSources" =>
        LET known == {ArgIds[k] : k \in DOMAIN ArgIds} \cap DOMAIN documentsById
        IN  /\ {ret.value[k].document_id : k \in DOMAIN ret.value} = known
            /\ Len(ret.value) = Cardinality(known)
            /\ \A k, l \in DOMAIN ret.value :
                  k < l => FirstPos(ArgIds, ret.value[k].document_id)
                           < FirstPos(ArgIds, ret.value[l].document_id)
            /\ \A k \in DOMAIN ret.value :
                  ret.value[k].title = documentsById[ret.value[k].document_id].title

\* the chunks of documents A, B, A gave the sources A, B
C4_Witness ==
    /\ ret.op = "extractSources"
    /\ ArgIds = <<"A", "B", "A">>
    /\ Len(ret.value) = 2
    /\ ret.value[1].document_id = "A"
    /\ ret.value[2].document_id = "B"
\* ------------------------------------------------- claims on RAGPipeline.query
Queried == ret.op = "query"

ErrorResult(msg) ==
    [mode |-> "error", answer |-> FailureAnswer, error |-> msg,
     retrievedChunks |-> <<>>, sources |-> <<>>]

\* C1: query never throws: an error raised by the embedder, the search, prompt
\* building, the generator or response extraction is returned as a result of
\* mode 'error' with the failure answer, the error's message and no chunks or
\* sources, and every result has mode rag, no_results or error
C1_QueryNeverThrows ==
    Queried =>
        /\ ~ret.threw
        /\ ret.value.mode \in {"rag", "no_results", "error"}
        /\ ret.raised # "" => ret.value = ErrorResult(ret.raised)
        /\ ~ret.embedded.ok => ret.raised = ret.embedded.error
        /\ (ret.embedded.ok /\ ~ret.searched) => ret.raised # ""
        /\ (ret.generatorCalls > 0 /\ ~ret.generated.ok) => ret.raised = ret.generated.error
        /\ (ret.generated.ok /\ ret.generated.value = Undefined) => ret.raised # ""

\* a generator failure, after a successful retrieval, came back as an error result
C1_Witness ==
    /\ Queried
    /\ ret.generatorCalls > 0
    /\ ret.generated = Rejected("generation failed")
    /\ Len(ret.retrieved) > 0
    /\ ret.value.mode = "error"

\* C2: with the store loaded, the embedder and the generator succeeding and at
\* least one chunk found, query returns mode 'rag' with the cleaned generator
\* output, the search results in order with their scores, and the deduplicated
\* sources
C2_RagResult ==
    (/\ Queried
     /\ ret.embedded.ok
     /\ ret.searched
     /\ Len(ret.retrieved) > 0
     /\ ret.generatorCalls > 0 => (ret.generated.ok /\ ret.generated.value # Undefined))
    => /\ ~ret.threw
       /\ ret.value.mode = "rag"
       /\ ret.value.answer = extractResponse(ret.generated.value)
       /\ ret.value.retrievedChunks = ResponseChunks(ret.retrieved)
       /\ ret.value.sources = extractSources(ret.retrieved, documentsById, categories)

\* C3: a search that finds nothing gives mode 'no_results' with the 'no relevant
\* documents' answer, no chunks and no sources, and the generator is not invoked
C3_NoResults ==
    (Queried /\ ret.searched /\ Len(ret.retrieved) = 0)
    => /\ ~ret.threw
       /\ ret.value.mode = "no_results"
       /\ ret.value.answer = NoResultsAnswer
       /\ ret.value.retrievedChunks = <<>>
       /\ ret.value.sources = <<>>
       /\ ret.generatorCalls = 0

\* a non-empty index searched with a filter that no chunk passes
C3_Witness ==
    /\ Queried
    /\ ret.searched
    /\ Len(ret.retrieved) = 0
    /\ ret.options.topK > 0
    /\ ret.options.filters.category # ""
    /\ Len(chunks) > 0
    /\ ret.value.mode = "no_results"

\* ---------------------------------------------- claims on QueryRouter.routeQuery
\* an automatic routing decision made on the best score of a non-empty retrieval,
\* under thresholds that are in order
Routed ==
    /\ ret.op = "routeQuery"
    /\ ~ret.threw
    /\ ret.options.forceMode = ""
    /\ ret.searched
    /\ Len(ret.results) > 0
    /\ minimumConfidence <= thresholdSimilarity

TopScore == ret.results[1].similarity_score

\* C10: without a forced mode and with a best score s over a non-empty index,
\* s >= T_high gives 'rag' with confidence s and the chunks, T_low <= s < T_high
\* gives 'general' with confidence 1 - s and the chunks, and s < T_low gives
\* 'general' with confidence 1.0 and no chunks
C10_RoutingBands ==
    Routed =>
        /\ TopScore >= thresholdSimilarity =>
              /\ ret.value.mode = "rag"
              /\ ret.value.confidence = TopScore
              /\ ret.value.relevantChunks = ret.results
        /\ (minimumConfidence <= TopScore /\ TopScore < thresholdSimilarity) =>
              /\ ret.value.mode = "general"
              /\ ret.value.confidence = One - TopScore
              /\ ret.value.relevantChunks = ret.results
        /\ TopScore < minimumConfidence =>
              /\ ret.value.mode = "general"
              /\ ret.value.confidence = One
              /\ ret.value.relevantChunks = <<>>

\* a score between the default thresholds routed to general chat with its chunks
C10_Witness ==
    /\ Routed
    /\ thresholdSimilarity = DefaultThresholdSimilarity
    /\ minimumConfidence = DefaultMinimumConfidence
    /\ TopScore = 50
    /\ ret.value.mode = "general"
    /\ ret.value.confidence = 50
    /\ Len(ret.value.relevantChunks) > 0

\* an automatic routing call that went as far as its embedding
AutoRouted ==
    /\ ret.op = "routeQuery"
    /\ ret.userQuery # ""
    /\ ret.options.forceMode = ""

\* the search the call made, or would have made, on the store as it is
RouteSearch ==
    search(chunks, embeddings, isLoaded, embeddingDim, ret.embedded.value,
           ret.options.topK, NoFilters, FALSE)

\* the message of the failure of the embedder or of the search, "" for none
RouteFailure ==
    IF ~ret.embedded.ok THEN ret.embedded.error
    ELSE IF RouteSearch.threw THEN RouteSearch.error
    ELSE ""

\* C11: for a non-empty query and no forced mode routeQuery never throws when the
\* embedder or the search fails: it returns 'general' with confidence 0.5, no
\* chunks and the error message; on a loaded, empty index it returns 'general'
\* with confidence 1.0
C11_RouterFallback ==
    AutoRouted =>
        /\ ~ret.threw
        /\ RouteFailure # "" =>
              /\ ret.value.mode = "general"
              /\ ret.value.confidence = One \div 2
              /\ ret.value.relevantChunks = <<>>
              /\ ret.value.error = RouteFailure
        /\ (RouteFailure = "" /\ Len(chunks) = 0) =>
              /\ ret.value.mode = "general"
              /\ ret.value.confidence = One
              /\ ret.value.relevantChunks = <<>>

\* the embedder answered with a vector of another dimension than the index
C11_Witness ==
    /\ AutoRouted
    /\ ret.embedded.ok
    /\ isLoaded
    /\ Len(chunks) > 0
    /\ RouteFailure = "Query embedding dimension mismatch"
    /\ ret.value.confidence = One \div 2
    /\ ret.value.error = RouteFailure

\* C12: every decision routeQuery returns has mode rag or general and a confidence
\* in [0, 1], whatever thresholds the setters accepted (in order or not) and for
\* every top score in [-1, 1]
C12_DecisionRange ==
    (ret.op = "routeQuery" /\ ~ret.threw) =>
        /\ ret.value.mode \in {"rag", "general"}
        /\ 0 <= ret.value.confidence
        /\ ret.value.confidence <= One

\* thresholds set in the opposite order and a decision made on a negative score
C12_Witness ==
    /\ AutoRouted
    /\ ~ret.threw
    /\ minimumConfidence > thresholdSimilarity
    /\ Len(ret.results) > 0
    /\ ret.results[1].similarity_score < 0
    /\ ret.value.confidence = One

\* thresholds in the opposite order and a score between them
C12_WitnessBetween ==
    /\ AutoRouted
    /\ ~ret.threw
    /\ Len(ret.results) > 0
    /\ thresholdSimilarity <= ret.results[1].similarity_score
    /\ ret.results[1].similarity_score < minimumConfidence
    /\ ret.value.mode = "rag"

\* ------------------------------------ claims on formatConversationHistory
Formatted == ret.op = "formatConversationHistory" /\ Len(ret.args.messages) > 0

\* the formatted history of the messages from number k on
SuffixText(k) ==
    Join([i \in 1..(Len(ret.args.messages) - k + 1) |->
             FormatMessage(ret.args.messages[k + i - 1])])

Fits(k) == tokenCount(ret.args.tokenCounter, SuffixText(k)) <= ret.args.maxTokens

\* the number of the first message kept: the first whose suffix fits, else the last
FirstKept ==
    LET n == Len(ret.args.messages)
        fitting == {k \in 1..n : Fits(k)}
    IN  IF fitting = {} THEN n ELSE CHOOSE k \in fitting : \A j \in fitting : k <= j

\* C13: formatConversationHistory keeps a suffix of the messages: it drops from the
\* front, one message at a time, stops as soon as the counted tokens of what is
\* left fit the budget and never drops the newest message, so the result fits
\* the budget or is exactly one message
C13_HistorySuffix ==
    Formatted =>
        /\ ret.value = SuffixText(FirstKept)
        /\ \/ tokenCount(ret.args.tokenCounter, ret.value) <= ret.args.maxTokens
           \/ ret.value = FormatMessage(ret.args.messages[Len(ret.args.messages)])

\* two of three messages dropped and the one left still over the budget
C13_Witness ==
    /\ Formatted
    /\ Len(ret.args.messages) = 3
    /\ ret.args.maxTokens > 0
    /\ ~Fits(3)
    /\ ret.value = FormatMessage(ret.args.messages[3])

\* one message dropped and the two left within the budget
C13_WitnessFits ==
    /\ Formatted
    /\ Len(ret.args.messages) = 3
    /\ ~Fits(1)
    /\ Fits(2)
    /\ ret.value = SuffixText(2)

\* ------------------------------------------------ claims on extractResponse
Extracted == ret.op = "extractResponse"

\* the positions of the turn markers in the generated text
MarkerPositions == Occurrences(ret.arg, UserMarker) \cup Occurrences(ret.arg, AssistantMarker)

\* the generated text before its earliest turn marker
BeforeMarkers ==
    IF MarkerPositions = {} THEN ret.arg
    ELSE SubSeq(ret.arg, 1, (CHOOSE p \in MarkerPositions : \A q \in MarkerPositions : p <= q) - 1)

PartOf(t, whole) ==
    \E i \in 1..(Len(whole) + 1), j \in 0..Len(whole) : t = SubSeq(whole, i, j)

\* C14: extractResponse cuts the generated text at the first occurrence of either
\* turn marker, a marker at the very start included: nothing at or after the
\* earliest marker is left in the output
C14_CutAtFirstMarker ==
    Extracted => PartOf(ret.value, BeforeMarkers)

\* the same for texts whose first marker does not follow leading white space only
C14_CutAtInnerMarker ==
    (Extracted /\ Trim(BeforeMarkers) # <<>>) => PartOf(ret.value, BeforeMarkers)

\* --------------------------------------------------- claims on createChunks
Chunked == ret.op = "createChunks"

\* C15: the chunks of a document carry chunk_index 0, 1, ..., n-1 in the order of
\* emission, also when the trailing segment is dropped, and each chunk_id is
\* '{document_id}_chunk_{chunk_index}', so the ids are unique
C15_ChunkIndices ==
    Chunked =>
        /\ \A k \in DOMAIN ret.value :
              /\ ret.value[k].chunk_index = k - 1
              /\ ret.value[k].document_id = ret.args.doc.id
              /\ ret.value[k].chunk_id = <<ret.args.doc.id, "_chunk_", k - 1>>
        /\ \A k, l \in DOMAIN ret.value :
              ret.value[k].chunk_id = ret.value[l].chunk_id => k = l

\* two chunks emitted and a trailing segment under the minimum dropped
C15_Witness ==
    /\ Chunked
    /\ Len(ret.value) = 2
    /\ ret.last < MIN_CHUNK_TOKENS
    /\ ret.value[2].chunk_index = 1

\* C16: when some sentence has an estimated token count >= min_chunk_tokens,
\* createChunks emits at least one chunk, wherever the sentence sits and whatever
\* the sizes of the others
C16_BigSentenceChunked ==
    (Chunked /\ \E i \in DOMAIN ret.args.sentences :
                    estimateTokens(ret.args.sentences[i]) >= MIN_CHUNK_TOKENS)
    => Len(ret.value) >= 1

\* a sentence of exactly the minimum between two small ones, kept as the only chunk
C16_Witness ==
    /\ Chunked
    /\ Len(ret.args.sentences) = 3
    /\ estimateTokens(ret.args.sentences[1]) < MIN_CHUNK_TOKENS
    /\ estimateTokens(ret.args.sentences[2]) = MIN_CHUNK_TOKENS
    /\ estimateTokens(ret.args.sentences[3]) < MIN_CHUNK_TOKENS
    /\ Len(ret.value) = 1

Downloaded == ret.op = "download" /\ ~ret.threw

\* C17: download processes every discovered link even when earlier links fail;
\* when it finishes the manifest holds exactly one entry per link, in order, with
\* downloaded = false and an error string exactly when the download of that link
\* failed, a link whose destination already existed has an entry and was not
\* fetched, and downloadedCount + failedCount is the number of links
C17_OneEntryPerLink ==
    Downloaded =>
        /\ Len(files.manifest.documents) = Len(ret.links)
        /\ Len(ret.failed) = Len(ret.links)
        /\ \A i \in DOMAIN ret.links :
              LET entry == files.manifest.documents[i]
              IN  /\ entry.title = ret.links[i].title
                  /\ entry.source_url = ret.links[i].url
                  /\ entry.downloaded = ~ret.failed[i]
                  /\ (entry.download_error # "") = ret.failed[i]
                  /\ entry.filepath \in ret.rawBefore
                        => entry.downloaded /\ ~ret.fetched[i]
        /\ ret.downloadedCount + ret.failedCount = Len(ret.links)
        /\ ret.failedCount = Cardinality({i \in DOMAIN ret.links : ret.failed[i]})

\* the first link fails, the second is fetched and the third finds its file on disk
C17_Witness ==
    /\ Downloaded
    /\ Len(ret.links) = 3
    /\ ret.failed = <<TRUE, FALSE, FALSE>>
    /\ ret.fetched = <<TRUE, TRUE, FALSE>>
    /\ files.manifest.documents[3].filepath \in ret.rawBefore
    /\ ret.downloadedCount = 2 /\ ret.failedCount = 1

Cleaned == ret.op = "cleanText"

\* C18: cleanText maps 'A', two blanks, four newlines, 'B' to 'A', two newlines,
\* 'B': a run of three or more newlines is reduced to exactly two newlines and the
\* result is trimmed
C18_ParagraphBreakKept ==
    Cleaned =>
        /\ ret.arg = <<"A", " ", " ", NL, NL, NL, NL, "B">> => ret.value = <<"A", NL, NL, "B">>
        /\ Trim(ret.value) = ret.value

\* what cleanText does: no newline is left in any cleaned text, every run of
\* white space being one blank, and the result is trimmed
C18_NoNewlineLeft ==
    Cleaned =>
        /\ \A i \in DOMAIN ret.value : ret.value[i] # NL
        /\ \A i \in 1..(Len(ret.value) - 1) : ~(ret.value[i] = " " /\ ret.value[i + 1] = " ")
        /\ Trim(ret.value) = ret.value

\* the chunks of the deployed index and the catalog the web app builds from the
\* deployed documents.json
DeployedChunks == files.deployed.embeddings.chunks

DeployedById == ById(files.deployed.documents.documents)

\* C19: after a complete offline pipeline run every chunk of the deployed
\* embeddings index references a document of the deployed documents.json
\* (getDocumentById(chunk.document_id) is not null) and has that document's
\* category, whichever documents failed to download, extract, chunk or embed
C19_ChunksReferenceDocuments ==
    runner.step = "complete" =>
        \A c \in DOMAIN DeployedChunks :
            /\ getDocumentById(DeployedById, DeployedChunks[c].document_id) # <<>>
            /\ getDocumentById(DeployedById, DeployedChunks[c].document_id)[1].category
                  = DeployedChunks[c].category

\* a complete run that deployed a chunk of its second document, the download of
\* the first one having failed
C19_Witness ==
    /\ runner.step = "complete"
    /\ runner.run = 2
    /\ Len(files.manifest.documents) = 2
    /\ ~files.manifest.documents[1].downloaded
    /\ Len(DeployedChunks) >= 1
    /\ DeployedChunks[1].document_id = <<"doc_", 2>>

\* a complete run that deployed one of two chunks, the embedding of the other
\* having failed
C19_WitnessSkipped ==
    /\ runner.step = "complete"
    /\ Len(files.chunked.chunks) = 2
    /\ Len(DeployedChunks) = 1

\* what a call of query(userQuery, options) does when it is the only one: its
\* locals at the second await, and what it returns
AloneEmbedded(userQuery, options) ==
    Embedded(StartedCall(userQuery, options),
             Settled(StartedCall(userQuery, options).rejection, EmbedderOf(userQuery)), TRUE)

Alone(userQuery, options) ==
    LET step == AloneEmbedded(userQuery, options)
    IN  IF step.next.pc = "idle" THEN step.ret
        ELSE Generated(step.next, Settled(step.next.rejection, GeneratorOf(step.ret.prompt)))

\* C20: query calls in flight at the same time, interleaved at their awaits over
\* a deterministic embedder and generator, do not interfere: each call returns
\* what it would return if run alone, and the retrieved chunks a call holds at
\* its second await are those it would hold alone
C20_NoInterference ==
    /\ (ret.op = "query" /\ "id" \in DOMAIN ret)
          => ret = [id |-> ret.id] @@ Alone(ret.userQuery, ret.options)
    /\ \A id \in DOMAIN calls :
          calls[id].pc = "generating"
             => /\ AloneEmbedded(calls[id].userQuery, calls[id].options).next.pc = "generating"
                /\ calls[id].retrieved
                      = AloneEmbedded(calls[id].userQuery, calls[id].options).next.retrieved
                /\ calls[id].prompt
                      = AloneEmbedded(calls[id].userQuery, calls[id].options).ret.prompt

\* call 1 returns its answer to "q1" after call 2, for "q2" with other options,
\* was started and retrieved other chunks while call 1 waited
C20_Witness ==
    /\ ret.op = "query" /\ "id" \in DOMAIN ret /\ ret.id = 1
    /\ ret.userQuery = "q1" /\ ret.value.mode = "rag"
    /\ calls[2].pc = "generating"
    /\ calls[2].userQuery = "q2"
    /\ calls[2].retrieved # ret.retrieved

\* C22: in every execution of query the steps come in the order embed, search,
\* build prompt, generate, extract: no search before the embedding resolved, no
\* generation before the search returned and the prompt was built, no answer
\* extracted before the generation resolved, and embedder and generator are
\* each invoked at most once
C22_StepOrder ==
    /\ query.pc = "embedding"
          => /\ ~query.searched
             /\ query.embedderCalls = 1 /\ query.generatorCalls = 0
    /\ query.pc = "generating"
          => /\ query.embedded.ok /\ query.searched
             /\ query.embedderCalls = 1 /\ query.generatorCalls = 1
    /\ ret.op = "generateResponse.call"
          => /\ query.pc = "generating"
             /\ ret.prompt = buildRAGPrompt(query.userQuery, buildContext(query.retrieved))
    /\ (ret.op = "query" /\ "searched" \in DOMAIN ret)
          => /\ ret.embedderCalls = 1 /\ ret.generatorCalls <= 1
             /\ ret.searched => ret.embedded.ok
             /\ ret.generatorCalls = 1 => ret.searched /\ Len(ret.retrieved) > 0
             /\ ret.generated.ok => ret.generatorCalls = 1
             /\ (~ret.threw /\ ret.value.mode = "rag") => ret.generated.ok

\* a query that went through all the steps and returned a grounded answer
C22_Witness ==
    /\ ret.op = "query" /\ "searched" \in DOMAIN ret
    /\ ~ret.threw /\ ret.value.mode = "rag"
    /\ ret.embedderCalls = 1 /\ ret.generatorCalls = 1

\* C23: the tokens recorded on every chunk createChunks emits are the estimator
\* applied to the text of that chunk, ceil(length / 3.5), also for a chunk made
\* of several sentences joined by blanks
C23_TokensAreEstimate ==
    Chunked => \A k \in DOMAIN ret.value :
                  ret.value[k].tokens = estimateTokens(ret.value[k].text)

\* the words two texts have in common at the end of the one and the start of the other
Overlap(previous, following) == Min(OVERLAP_TOKENS, Len(previous))

\* C24: when createChunks emits a chunk because the next sentence would pass
\* the target, the following chunk begins with the last min(50, word count)
\* words of the chunk just emitted, followed at once by the incoming sentence
C24_OverlapTail ==
    Chunked =>
        \A k \in 1..(Len(ret.value) - 1) :
            LET previous == ret.value[k].text
                following == ret.value[k + 1].text
                n == Overlap(previous, following)
            IN  /\ Len(following) > n
                /\ SubSeq(following, 1, n) = SubSeq(previous, Len(previous) - n + 1, Len(previous))
                /\ \E i \in DOMAIN ret.args.sentences :
                      /\ n + Len(ret.args.sentences[i]) <= Len(following)
                      /\ SubSeq(following, n + 1, n + Len(ret.args.sentences[i]))
                            = ret.args.sentences[i]

\* a chunk of more than fifty words followed by a chunk that starts with its
\* last fifty, which are not its first fifty
C24_Witness ==
    /\ Chunked
    /\ Len(ret.value) >= 2
    /\ Len(ret.value[1].text) > OVERLAP_TOKENS
    /\ SubSeq(ret.value[1].text, 1, OVERLAP_TOKENS)
          # SubSeq(ret.value[2].text, 1, OVERLAP_TOKENS)

\* the steps of a run after the download, and its success exit
StepsAfterDownload == <<"extract", "chunk", "generate", "categories", "copy", "complete">>

\* C25: run executes download, extract, chunk, embed, categories and copy in
\* that order, a step starting only when the one before it has completed; when a
\* step fails no later step is started and the run ends in the failure exit,
\* never in the success exit
C25_StepsInOrder ==
    [][\/ /\ runner'.run = runner.run + 1
          /\ runner.step \in {"idle", "complete", "failed"}
          /\ ret'.op = "download"
          /\ runner'.step = IF ret'.threw THEN "failed" ELSE "extract"
       \/ /\ runner'.run = runner.run
          /\ \E i \in 1..5 :
                /\ runner.step = StepsAfterDownload[i]
                /\ ret'.op = StepsAfterDownload[i]
                /\ runner'.step = IF ret'.threw THEN "failed" ELSE StepsAfterDownload[i + 1]]_vars

\* a run that ended in the failure exit at the embedding step, its chunks
\* written and nothing embedded or deployed
C25_Witness ==
    /\ runner = [step |-> "failed", run |-> 1]
    /\ ret.op = "generate" /\ ret.threw
    /\ Len(files.chunked.chunks) >= 1
    /\ Len(files.embedded.chunks) = 0
    /\ Len(files.deployed.embeddings.chunks) = 0

\* C28: in every state of the VectorStore chunks and embeddings have the same
\* length and embeddings[i] is the vector of chunks[i]; in particular a
\* loadEmbeddings that fails leaves chunks, embeddings, embeddingDim and isLoaded
\* as they were
C28_ChunksMatchEmbeddings ==
    /\ Len(chunks) = Len(embeddings)
    /\ \A i \in DOMAIN chunks :
          /\ ValidEmbedding(chunks[i])
          /\ embeddings[i] = Float32Array(chunks[i].embedding.data)
    /\ (ret.op = "loadEmbeddings" /\ ret.threw /\ ~isLoaded) => chunks = <<>>

\* C30: extractResponse is idempotent, extractResponse(extractResponse(x)) =
\* extractResponse(x) for every generated text x; in particular its output never
\* begins with one of the role prefixes, also when several are stacked at the
\* start of x in any order
C30_Idempotent ==
    Extracted =>
        /\ extractResponse(ret.value) = ret.value
        /\ ret.value # <<>> => \A k \in DOMAIN prefixes : Head(ret.value) # prefixes[k]

\* C21: conversation storage is cleaned up automatically, so that after any
\* sequence of application operations at most 20 conversations are stored (the
\* 20 most recently updated ones)
C21_AtMostKept == Len(conversations) <= keepCount

\* a sendMessage call has stored its reply
Replied == ret.op = "sendMessage.generated" /\ ~ret.threw

\* C26: the reply of a sendMessage call is appended to the conversation to which
\* the call appended the user's message, whatever the user selected, created,
\* imported or deleted while the generation was pending
C26_ReplyToAsked ==
    Replied =>
        \E i \in DOMAIN conversations :
            LET messages == conversations[i].messages
            IN /\ conversations[i].conversation_id = ret.asked
               /\ messages # <<>>
               /\ messages[Len(messages)] =
                      [role |-> "assistant", content |-> ret.response, timestamp |-> ret.at]

\* every loadModel call issued has completed
AllLoadsSettled == loads # <<>> /\ \A k \in DOMAIN loads : loads[k].pc = "done"

\* C27: once all overlapping loadModel / switchModel calls have completed, the
\* loaded pipeline and getCurrentModel() are those of the model of the most
\* recently issued call (its pipeline having been created), whatever order the
\* loads finish in
C27_LastIssuedWins ==
    (AllLoadsSettled /\ loads[Len(loads)].ok) =>
        /\ getCurrentModel = loads[Len(loads)].modelName
        /\ pipeline = loads[Len(loads)].modelName

\* the sendMessage calls waiting for the generator
Generating == {k \in DOMAIN sends : sends[k].pc = "generating"}

\* C29: at most one generation is in flight: while a sendMessage call is pending
\* (isGenerating is true) a further sendMessage call adds no message and invokes
\* no generator; and every call that started generating resets isGenerating and
\* enables the input again in the end, the generation succeeding or throwing
C29_OneGeneration ==
    /\ [](Cardinality(Generating) <= 1 /\ (isGenerating <=> Generating # {}))
    /\ [][(isGenerating /\ ret'.op = "sendMessage")
             => (conversations' = conversations /\ sends' = sends /\ isGenerating')]_vars
    /\ (isGenerating ~> (~isGenerating /\ ~inputDisabled))

\* a further sendMessage call has returned while a generation is pending
C29_Witness ==
    /\ ret.op = "sendMessage" /\ ret.started = FALSE
    /\ isGenerating
    /\ Generating # {}

\* a generation has thrown, and the flag is reset and the input enabled
C29_WitnessThrown ==
    /\ ret.op = "sendMessage.generated" /\ ret.threw
    /\ ~isGenerating /\ ~inputDisabled

====
